---------------------------- MODULE Spec2Model ----------------------------
(***************************************************************************)
(* Model of AIClientCenter: the HTTP execution core                        *)
(* (OpenAICompatibleAPI), the backend client state machine (BaseAIClient), *)
(* the manager / scheduler (AIClientManager), the rotator (SimpleRotator)  *)
(* and the interval log (ClientStateSQLiteLogger).                         *)
(*                                                                         *)
(* Specifications:                                                         *)
(*   SpecHttp   - create_chat_completion_sync applied to every transport   *)
(*                outcome of a bounded set.                                *)
(*   SpecChat   - one caller chatting on its client, the adapter doing     *)
(*                everything an adapter can do.                            *)
(*   Spec       - a caller, the dashboard and the health checker           *)
(*                interleaved at the granularity of the code's lock        *)
(*                blocks.                                                  *)
(*   SpecSelect - get_available_client applied to enumerated manager       *)
(*                states of a fleet of three clients.                      *)
(*   SpecFleet  - three callers selecting, chatting and changing on a      *)
(*                registered fleet of AVAILABLE clients.                   *)
(*   SpecMonitor, SpecMonitorFair - the monitor loop on one client, its    *)
(*                clock running; the second with a fair scheduler.         *)
(*   SpecConstruct - the operations on clients constructed with or         *)
(*                without default_available.                               *)
(*   SpecRotator - set_items and get_next on every list and threshold of   *)
(*                a bounded set.                                           *)
(*   SpecLog    - a chatting thread and the dashboard delivering the       *)
(*                events of one client to the interval log.                *)
(*   SpecRuns   - the logger over successive launches of the process:      *)
(*                construction with reconciliation, start, heartbeat,     *)
(*                attach, events, stop, and the process ending.            *)
(*   SpecSelfTest - manual health checks of one client, the test chat      *)
(*                ending in each of its ways.                              *)
(*   SpecCheckLog - the chats of a user and of a health check delivered    *)
(*                to the interval log.                                     *)
(*   SpecRetry  - the retry decorator of _attempt_sync_post on every      *)
(*                sequence of transport outcomes of a bounded set.         *)
(*   SpecLease  - _acquire and _release of one client called by three      *)
(*                threads.                                                 *)
(*   SpecLocks  - the with-blocks of the operations of five threads on     *)
(*                the locks of the manager, a client and the log.          *)
(*   SpecWorkers - start_monitoring, stop_monitoring and the threads of    *)
(*                _monitor_loop.                                           *)
(*   SpecLimits - two callers and the health checks on two clients of a    *)
(*                group whose limit is never lowered.                      *)
(***************************************************************************)
EXTENDS Integers, Sequences, FiniteSets, TLC

None == "none"

(***************************************************************************)
(* Strings that the code inspects by content are sequences of lexical      *)
(* atoms: "HTTP_" followed by the decimal digits of the status.            *)
(***************************************************************************)
DigitChar(d) ==
    CASE d = 0 -> "0" [] d = 1 -> "1" [] d = 2 -> "2" [] d = 3 -> "3"
      [] d = 4 -> "4" [] d = 5 -> "5" [] d = 6 -> "6" [] d = 7 -> "7"
      [] d = 8 -> "8" [] OTHER -> "9"

RECURSIVE Decimal(_)
Decimal(n) == IF n < 10 THEN <<DigitChar(n)>>
              ELSE Decimal(n \div 10) \o <<DigitChar(n % 10)>>

\* f"HTTP_{status}"
HttpCode(status) == <<"HTTP_">> \o Decimal(status)

\* a code that is a fixed literal in the source
NamedCode(name) == <<name>>

\* pat in str(code)
Contains(pat, s) ==
    \E i \in 1..(Len(s) - Len(pat) + 1) : SubSeq(s, i, i + Len(pat) - 1) = pat

HTTP_400 == <<"HTTP_", "4", "0", "0">>
HTTP_401 == <<"HTTP_", "4", "0", "1">>
HTTP_503 == <<"HTTP_", "5", "0", "3">>

(***************************************************************************)
(* APIResult                                                               *)
(***************************************************************************)
\* the Python value None in the error field
NoError == [type |-> None, code |-> <<>>, message |-> None]

_make_error_result(error_type, error_code) ==
    [success |-> FALSE, data |-> None,
     error |-> [type |-> error_type, code |-> error_code, message |-> "msg"]]

\* {"success": True, "data": response.json(), "error": None}
SuccessResult(data) == [success |-> TRUE, data |-> data, error |-> NoError]

(***************************************************************************)
(* HTTP execution core, synchronous path                                   *)
(***************************************************************************)
MaxStatus == 600

StatusCodes == 100..MaxStatus

\* what response.json() yields for the body of a 200 response:
\* a JSON object with (or without) choices, the JSON value null, or a
\* body that is not JSON (json() raises JSONDecodeError)
JsonObjects == {"ok_content", "other_content", "empty_content", "empty_choices"}
BodyKinds == JsonObjects \cup {"json_null", "not_json"}

\* exceptions the transport can raise out of _attempt_sync_post
RequestExceptions == {"ConnectTimeout", "ReadTimeout", "ConnectionError",
                      "ProxyError", "SSLError", "JSONDecodeError"}
OtherExceptions == {"RuntimeError"}
IsTimeout(e) == e \in {"ConnectTimeout", "ReadTimeout"}

\* response.json()
ResponseJson(body) ==
    CASE body \in JsonObjects -> [raised |-> None, value |-> body]
      [] body = "json_null"   -> [raised |-> None, value |-> None]
      [] OTHER                -> [raised |-> "JSONDecodeError", value |-> None]

\* lines 348-362: except RequestException
OnRequestException(e, reset_fails) ==
    IF reset_fails
    THEN _make_error_result("TRANSIENT_NETWORK", NamedCode("SESSION_RESET_FAILED"))
    ELSE _make_error_result("TRANSIENT_NETWORK",
            IF IsTimeout(e) THEN NamedCode("CONNECTION_TIMEOUT")
                            ELSE NamedCode("PROXY_FAIL"))

\* lines 364-367: except Exception
OnException(e) ==
    _make_error_result("PERMANENT", NamedCode("UNEXPECTED_CLIENT_ERROR"))

\* lines 310-346: classification of a response
ClassifyResponse(status, body, reset_fails) ==
    IF status = 200
    THEN LET j == ResponseJson(body)
         IN  IF j.raised = None THEN SuccessResult(j.value)
             ELSE OnRequestException(j.raised, reset_fails)
    ELSE IF 400 <= status /\ status < 500
    THEN IF status = 429
         THEN _make_error_result("TRANSIENT_SERVER", HttpCode(status))
         ELSE _make_error_result("BAD_REQUEST", HttpCode(status))
    ELSE IF 500 <= status /\ status < 600
    THEN _make_error_result("TRANSIENT_SERVER", HttpCode(status))
    ELSE _make_error_result("PERMANENT", HttpCode(status))

\* transport: the outcome of _attempt_sync_post, a response or an exception
_post_sync_unified(transport, reset_fails) ==
    IF transport.kind = "response"
    THEN ClassifyResponse(transport.status, transport.body, reset_fails)
    ELSE IF transport.exc \in RequestExceptions
    THEN OnRequestException(transport.exc, reset_fails)
    ELSE OnException(transport.exc)

create_chat_completion_sync(has_token, transport, reset_fails) ==
    IF ~has_token
    THEN _make_error_result("PERMANENT", NamedCode("MISSING_TOKEN"))
    ELSE _post_sync_unified(transport, reset_fails)

Responses == [kind : {"response"}, status : StatusCodes, body : BodyKinds,
              exc : {None}]
Raised == [kind : {"exception"}, status : {0}, body : {None},
           exc : RequestExceptions \cup OtherExceptions]
Transports == Responses \cup Raised

HttpInputs == [has_token : BOOLEAN, transport : Transports, reset_fails : BOOLEAN]

VARIABLES httpPc, httpIn, httpOut,
          tries       \* the attempts the retry wrapper has made in this call

httpVars == <<httpPc, httpIn, httpOut, tries>>

NoResult == [success |-> FALSE, data |-> None, error |-> NoError]

HttpInit ==
    /\ httpPc = "ready"
    /\ httpIn \in HttpInputs
    /\ httpOut = NoResult
    /\ tries = 0

HttpCall ==
    /\ httpPc = "ready"
    /\ httpPc' = "returned"
    /\ httpOut' = create_chat_completion_sync(httpIn.has_token, httpIn.transport,
                                               httpIn.reset_fails)
    /\ UNCHANGED <<httpIn, tries>>

(***************************************************************************)
(* Backend clients and the manager                                         *)
(***************************************************************************)
MaxChats == 2      \* chats admitted per client
MaxErrors == 2     \* an error is counted while error_sum is below this
MaxTime == 2       \* the clock runs from 1 to MaxTime

Clients == {"A", "B", "C"}
Users == {"u1", "u2", "u3"}
\* the callers that run as threads
Callers == {"u1"}

CLIENT_PRIORITY_NORMAL == 50
CLIENT_PRIORITY_FREEBIE == 0

\* the fleet: name and priority of each configured client
Priority(c) == IF c = "A" THEN CLIENT_PRIORITY_FREEBIE ELSE CLIENT_PRIORITY_NORMAL
Groups == {"G", "H"}

\* _generate_test_user_name
_generate_test_user_name(c) == "[System Check] " \o c
TestUsers == {_generate_test_user_name(c) : c \in Clients}
Keys == Users \cup TestUsers

\* the callers' threads, the dashboard thread that sets statuses, and the thread
\* that runs health checks (the monitor, or a manual check's request thread)
Procs == Users \cup {"admin", "checker"}

Statuses == {"UNKNOWN", "AVAILABLE", "ERROR", "UNAVAILABLE"}

VARIABLES
    now,              \* time.time()
    clients,          \* AIClientManager.clients
    reg_order,        \* the clients in the order of their registration
    sel,              \* the observed call of get_available_client
    user_client_map,  \* AIClientManager.user_client_map: key -> client held
    group_limits,     \* AIClientManager.group_limits: group -> limit
    status, error_count, error_sum, chat_count, in_use, acquired, last_chat,
    last_test, status_last_updated,
                      \* BaseAIClient._status, per client
    health,           \* calculate_health(), per client
    group_id,         \* BaseAIClient.group_id, per client
    events,           \* the chat events each client has emitted to its sink
    pc,               \* where each thread is
    cur,              \* the client the thread's current call is about
    todo,             \* lock blocks the running handler has still to execute
    ret,              \* the value chat returned to the thread
    final_success,    \* chat's local final_success
    api_result,       \* chat's local result: what the adapter call did
    eff,              \* what the thread's current chat did to the client
    test_result,      \* what _test_and_update_status returned to the thread
    targets           \* _check_client_health's clients_to_check

clientVars == <<status, error_count, error_sum, chat_count, in_use, acquired,
                last_chat, last_test, status_last_updated, health, events>>
mgrVars == <<clients, reg_order, sel, user_client_map, group_limits>>
procVars == <<pc, cur, todo, ret, final_success, api_result, eff, test_result,
             targets>>
mainVars == <<now, group_id, mgrVars, clientVars, procVars>>

GroupOf(c) == group_id[c]

(***************************************************************************)
(* SimpleRotator                                                           *)
(***************************************************************************)
VARIABLES
    _items,             \* SimpleRotator._items
    _rotate_per_times,  \* SimpleRotator._rotate_per_times
    _current_idx,       \* SimpleRotator._current_idx
    _current_uses,      \* SimpleRotator._current_uses
    returned            \* what get_next returned, call by call, since the
                        \* items were last set

rotVars == <<_items, _rotate_per_times, _current_idx, _current_uses, returned>>

\* SimpleRotator(): items or [], rotate_per_times = 1
RotatorNew ==
    /\ _items = <<>>
    /\ _rotate_per_times = 1
    /\ _current_idx = 0
    /\ _current_uses = 0
    /\ returned = <<>>

(***************************************************************************)
(* ClientStateSQLiteLogger                                                 *)
(***************************************************************************)
VARIABLES
    client_state_log,  \* the table client_state_log: row id -> row
    _open,             \* ClientStateSQLiteLogger._open: client -> open row
    lpc,               \* where each thread is in chat / handle_event
    event,             \* the event the thread has built or is handling
    open_info,         \* the local open_info of _close_interval
    desired,           \* the interval the thread is about to open
    run_meta,          \* the table run_meta: run id -> row
    run_id,            \* ClientStateSQLiteLogger.run_id; none: no logger
    _hb_running,       \* ClientStateSQLiteLogger._hb_running
    reconciled         \* the runs reconcile_stale_runs has ended

logVars == <<client_state_log, _open, lpc, event, open_info, desired>>
runVars == <<run_meta, run_id, _hb_running, reconciled>>

\* a column that is NULL
Null == -1

\* the run ids of the process's successive launches
RunIds == {"r1", "r2", "r3"}

\* no row of run_meta has this run id
NoRun == [start_ts |-> Null, last_heartbeat_ts |-> Null, end_ts |-> Null]

\* _register_run_meta: INSERT OR IGNORE INTO run_meta
_register_run_meta(rm, r, ts) ==
    IF rm[r] # NoRun THEN rm
    ELSE [rm EXCEPT ![r] = [start_ts |-> ts, last_heartbeat_ts |-> ts,
                            end_ts |-> Null]]

\* the threads that deliver events to the log
LogThreads == {"u1", "admin"}

\* self._open.get(client_name) when there is no entry
NoOpen == [row_id |-> 0, state |-> None, model |-> None]
NoEvent == [type |-> None, ts |-> 0, client_name |-> None, model |-> None,
            success |-> FALSE, new_status |-> None,
            is_health_check |-> FALSE]
NoInterval == [state |-> None, model |-> None, is_health_check |-> FALSE]

\* ClientStateSQLiteLogger() at time 1 on a database that is new: no
\* interval yet
LoggerNew ==
    /\ client_state_log = <<>>
    /\ _open = [c \in Clients |-> NoOpen]
    /\ lpc = [t \in LogThreads |-> "idle"]
    /\ event = [t \in LogThreads |-> NoEvent]
    /\ open_info = [t \in LogThreads |-> NoOpen]
    /\ desired = [t \in LogThreads |-> NoInterval]
    /\ run_id = "r1"
    /\ run_meta = _register_run_meta([r \in RunIds |-> NoRun], "r1", 1)
    /\ _hb_running = FALSE
    /\ reconciled = {}

(***************************************************************************)
(* The lease of a client seen from its threads                             *)
(***************************************************************************)
MaxAcquires == 3   \* _acquire is called while acquire_count is below this

\* the threads that call _acquire: two callers through the manager and the
\* health checker
LeaseThreads == {"u1", "u2", "checker"}

VARIABLES
    acquire_count,   \* BaseAIClient._status['acquire_count'], per client
    last_acquired,   \* BaseAIClient._status['last_acquired'], per client
    last_released,   \* BaseAIClient._status['last_released'], per client
    acquire_ret,     \* what the thread's last _acquire returned
    since_release    \* the _acquire calls that returned True since the
                     \* client's last _release

leaseVars == <<acquire_count, last_acquired, last_released, acquire_ret,
               since_release>>

\* BaseAIClient.__init__, lines 92-105
LeaseNew ==
    /\ acquire_count = [c \in Clients |-> 0]
    /\ last_acquired = [c \in Clients |-> 0]
    /\ last_released = [c \in Clients |-> 0]
    /\ acquire_ret = [t \in LeaseThreads |-> None]
    /\ since_release = [c \in Clients |-> 0]

(***************************************************************************)
(* The locks: AIClientManager._lock, BaseAIClient._lock of client A and    *)
(* ClientStateSQLiteLogger._db_lock, all of them threading.RLock           *)
(***************************************************************************)
Locks == {"manager", "A", "log"}

\* callers, the dashboard, the monitor worker and the heartbeat worker
LockThreads == {"u1", "u2", "admin", "monitor", "hb"}

VARIABLES
    lock_owner,   \* the thread that owns the lock, or None
    lock_depth,   \* how many times its owner has entered it
    prog          \* what is left of the operation the thread is running:
                  \* its requests and releases of locks, in order

lockVars == <<lock_owner, lock_depth, prog>>

LocksNew ==
    /\ lock_owner = [l \in Locks |-> None]
    /\ lock_depth = [l \in Locks |-> 0]
    /\ prog = [t \in LockThreads |-> <<>>]

(***************************************************************************)
(* The monitor: start_monitoring, stop_monitoring and the threads that run *)
(* _monitor_loop                                                           *)
(***************************************************************************)
first_check_delay == 1   \* AIClientManager(first_check_delay_sec)
MaxWorkClock == 6        \* the clock of the workers stops here

\* the threads start_monitoring can create, in the order of their creation
Workers == {"w1", "w2"}
WorkerOrder == <<"w1", "w2">>

VARIABLES
    monitor_running,         \* AIClientManager.monitor_running
    monitor_thread,          \* AIClientManager.monitor_thread
    first_check_delay_sec,   \* AIClientManager.first_check_delay_sec
    wpc,                     \* where each thread of _monitor_loop is
    wcur,                    \* the client the thread's check is about
    cpc,                     \* where the thread that starts and stops is
    stop_returned            \* stop_monitoring has returned and
                             \* start_monitoring has not been called since

monVars == <<monitor_running, monitor_thread, first_check_delay_sec, wpc,
             wcur, cpc, stop_returned>>

\* AIClientManager.__init__, lines 636-639
MonitorNew ==
    /\ monitor_running = FALSE
    /\ monitor_thread = None
    /\ first_check_delay_sec = first_check_delay
    /\ wpc = [w \in Workers |-> "unborn"]
    /\ wcur = [w \in Workers |-> None]
    /\ cpc = "idle"
    /\ stop_returned = FALSE

auxVars == <<leaseVars, lockVars, monVars>>
AuxNew == LeaseNew /\ LocksNew /\ MonitorNew

\* the rotator, the interval log and the components modelled on their own,
\* which the manager's actions do not touch
sideVars == <<rotVars, logVars, runVars, auxVars>>
SideIdle == RotatorNew /\ LoggerNew /\ AuxNew

vars == <<httpVars, sideVars, mainVars>>

(***************************************************************************)
(* Lock blocks of BaseAIClient                                             *)
(***************************************************************************)
Inc == [op |-> "inc", st |-> None]
Reset == [op |-> "reset", st |-> None]
Upd(s) == [op |-> "upd", st |-> s]

\* _increase_error_count counting every error twice
IncreaseErrorCountTwice(c) ==
    /\ error_count' = [error_count EXCEPT ![c] = @ + 2]
    /\ error_sum' = [error_sum EXCEPT ![c] = @ + 2]
    /\ UNCHANGED <<status, status_last_updated>>

\* _increase_error_count
_increase_error_count(c) ==
    /\ error_count' = [error_count EXCEPT ![c] = @ + 1]
    /\ error_sum' = [error_sum EXCEPT ![c] = @ + 1]
    /\ UNCHANGED <<status, status_last_updated>>

\* _reset_error_count
_reset_error_count(c) ==
    /\ error_count' = [error_count EXCEPT ![c] = 0]
    /\ UNCHANGED <<error_sum, status, status_last_updated>>

\* _update_client_status
_update_client_status(c, s) ==
    /\ status' = [status EXCEPT ![c] = s]
    /\ status_last_updated' =
          [status_last_updated EXCEPT ![c] = IF s = "UNKNOWN" THEN 0 ELSE now]
    /\ UNCHANGED <<error_count, error_sum>>

\* one lock block of a handler
Apply(c, o) ==
    CASE o.op = "inc"   -> _increase_error_count(c)
      [] o.op = "reset" -> _reset_error_count(c)
      [] OTHER          -> _update_client_status(c, o.st)

(***************************************************************************)
(* chat: the caller-visible results and the handlers                       *)
(***************************************************************************)
NoRet == [error |-> None, error_type |-> None, api_error_code |-> <<>>,
          api_error_type |-> None, data |-> None]

\* a successful response map (no 'error' key)
ResponseMap(data) == [NoRet EXCEPT !.data = data]
Envelope(error, error_type) ==
    [NoRet EXCEPT !.error = error, !.error_type = error_type]
IsSuccess(r) == r.error = None /\ r.data # None

\* _handle_unified_error without the counting of the error
HandleUnifiedErrorNoCount(error) ==
    [ops |-> IF error.type = "PERMANENT" THEN <<Upd("UNAVAILABLE")>>
             ELSE <<Upd("ERROR")>>,
     ret |-> [error |-> "unified_api_error", error_type |-> "fatal",
              api_error_code |-> error.code, api_error_type |-> error.type,
              data |-> None]]

\* _handle_unified_error: the lock blocks it runs, in order, and its result
_handle_unified_error(error) ==
    LET result(category) ==
            [error |-> "unified_api_error", error_type |-> category,
             api_error_code |-> error.code, api_error_type |-> error.type,
             data |-> None]
    IN  IF error.type = "PERMANENT"
        THEN IF Contains(HTTP_400, error.code)
             THEN [ops |-> <<>>, ret |-> result("fatal")]
             ELSE [ops |-> <<Upd("UNAVAILABLE"), Inc>>, ret |-> result("fatal")]
        ELSE IF error.type \in {"TRANSIENT_SERVER", "TRANSIENT_NETWORK"}
        THEN [ops |-> <<Upd("ERROR"), Inc>>, ret |-> result("recoverable")]
        ELSE [ops |-> <<Upd("ERROR"), Inc>>, ret |-> result("recoverable")]

\* a _handle_exception that takes every exception for a recoverable one
HandleExceptionRecoverable(exc) ==
    [ops |-> <<Upd("ERROR"), Inc>>,
     ret |-> Envelope("internal_exception", "recoverable")]

\* _handle_exception
ValueErrorClass == {"ValueError", "TypeError"}
_handle_exception(exc) ==
    IF exc \in ValueErrorClass
    THEN [ops |-> <<Upd("UNAVAILABLE"), Inc>>,
          ret |-> Envelope("internal_exception", "fatal")]
    ELSE [ops |-> <<Upd("ERROR"), Inc>>,
          ret |-> Envelope("internal_exception", "recoverable")]

\* _handle_llm_response; data = None makes response.get raise inside its try
_handle_llm_response(data) ==
    IF data = None
    THEN [ops |-> <<Inc, Upd("ERROR")>>,
          ret |-> Envelope("response_processing_error", "recoverable")]
    ELSE IF data = "empty_choices"
    THEN [ops |-> <<Inc, Upd("ERROR")>>,
          ret |-> Envelope("empty_response", "recoverable")]
    ELSE [ops |-> <<Reset, Upd("AVAILABLE")>>, ret |-> ResponseMap(data)]

\* what _chat_completion_sync does: returns an APIResult or raises
Returned(r) == [raised |-> None, result |-> r]
Raises(exc) == [raised |-> exc, result |-> NoResult]
\* the adapter has not been called
NotCalled == [raised |-> "not called", result |-> NoResult]

\* chat, lines 150-179: the handler chosen for the adapter's outcome
ChatDispatch(outcome) ==
    IF outcome.raised # None
    THEN [plan |-> _handle_exception(outcome.raised), final_success |-> FALSE]
    ELSE IF outcome.result.success
    THEN [plan |-> _handle_llm_response(outcome.result.data), final_success |-> TRUE]
    ELSE IF outcome.result.error # NoError
    THEN [plan |-> _handle_unified_error(outcome.result.error), final_success |-> FALSE]
    ELSE [plan |-> _handle_exception("ValueError"), final_success |-> FALSE]

\* the adapters' outcomes: the synchronous HTTP core on representative
\* transports, results of the other adapters (SDK adapter, asynchronous
\* core), and adapters that raise
ChatTransports ==
    [kind : {"response"}, status : {200}, exc : {None},
     body : {"ok_content", "other_content", "empty_choices", "json_null"}]
    \cup [kind : {"response"}, status : {400, 401, 429, 503}, exc : {None},
          body : {"not_json"}]
    \cup [kind : {"exception"}, status : {0}, body : {None},
          exc : {"ConnectTimeout", "RuntimeError"}]
AdapterOutcomes ==
    {Returned(create_chat_completion_sync(has_token, t, FALSE)) :
        has_token \in BOOLEAN, t \in ChatTransports}
    \cup {Returned(_make_error_result("PERMANENT", HTTP_400)),
          Returned(_make_error_result("PERMANENT", HTTP_401)),
          Returned(NoResult),
          Raises("ValueError"), Raises("RuntimeError")}

\* the outcomes met while threads interleave: one for each way a chat ends
FewOutcomes ==
    {Returned(SuccessResult("ok_content")),
     Returned(SuccessResult("other_content")),
     Returned(_make_error_result("TRANSIENT_SERVER", HTTP_503)),
     Returned(_make_error_result("PERMANENT", HTTP_400)),
     Returned(_make_error_result("PERMANENT", HTTP_401)),
     Raises("ValueError")}

\* whether the handler's plan counts an error
CountsError(plan) == \E i \in 1..Len(plan.ops) : plan.ops[i] = Inc

NoEff == [inc |-> 0, reset |-> FALSE, st |-> None]

\* the thread is between calls
Idle(p) == pc[p] = "idle"
\* the thread's chat is past admission
InFlight(p) == pc[p] \in {"calling", "handling"}
\* where a thread continues when its chat returns: a caller is between
\* calls again, a health check goes on in _test_and_update_status
AfterChat(p) == IF p \in Callers THEN "idle" ELSE "t_validate"

\* chat, line 131, with the test of in_use left out
NeverBusy(c) == FALSE

\* chat, line 131: the client is running a chat
Busy(c) == in_use[c]

\* chat, lines 128-145: admission under the client lock, then chat_start
\* (the event is emitted by the admitted thread before it does anything else)
ChatAdmission(p, c) ==
    /\ cur' = [cur EXCEPT ![p] = c]
    /\ IF status[c] = "UNAVAILABLE"
       THEN /\ ret' = [ret EXCEPT ![p] = Envelope("client_unavailable", None)]
            /\ pc' = [pc EXCEPT ![p] = "rejected"]
            /\ UNCHANGED <<in_use, chat_count, events>>
       ELSE IF Busy(c)
       THEN /\ ret' = [ret EXCEPT ![p] = Envelope("client_busy", None)]
            /\ pc' = [pc EXCEPT ![p] = "rejected"]
            /\ UNCHANGED <<in_use, chat_count, events>>
       ELSE /\ chat_count[c] < MaxChats
            /\ in_use' = [in_use EXCEPT ![c] = TRUE]
            /\ chat_count' = [chat_count EXCEPT ![c] = @ + 1]
            /\ events' = [events EXCEPT ![c] = Append(@, "chat_start")]
            /\ pc' = [pc EXCEPT ![p] = "calling"]
            /\ UNCHANGED ret
    /\ UNCHANGED <<status, status_last_updated, error_count, error_sum,
                   acquired, last_chat, last_test, health, todo,
                   final_success, api_result, eff, test_result, targets, now,
                   httpVars, sideVars, group_id, mgrVars>>

\* what a caller keeps of a chat that has returned: nothing; a health check
\* keeps the result for _test_and_update_status
Returns(p) ==
    IF p \in Callers
    THEN /\ ret' = [ret EXCEPT ![p] = NoRet]
         /\ cur' = [cur EXCEPT ![p] = None]
    ELSE UNCHANGED <<ret, cur>>

\* chat, lines 130 and 132: the rejected call returns
ChatRejected(p) ==
    /\ pc[p] = "rejected"
    /\ pc' = [pc EXCEPT ![p] = AfterChat(p)]
    /\ Returns(p)
    /\ UNCHANGED <<todo, final_success, api_result, eff, test_result,
                   targets, now, httpVars, sideVars, group_id, mgrVars,
                   clientVars>>

\* chat, lines 150-179: the adapter call returns or raises
AdapterReturn(p, o) ==
    /\ pc[p] = "calling"
    /\ LET d == ChatDispatch(o)
       IN  /\ CountsError(d.plan) => error_sum[cur[p]] < MaxErrors
           /\ todo' = [todo EXCEPT ![p] = d.plan.ops]
           /\ ret' = [ret EXCEPT ![p] = d.plan.ret]
           /\ final_success' = [final_success EXCEPT ![p] = d.final_success]
           /\ api_result' = [api_result EXCEPT ![p] = o]
    /\ pc' = [pc EXCEPT ![p] = "handling"]
    /\ UNCHANGED <<cur, eff, test_result, targets, now, httpVars, sideVars,
                   group_id, mgrVars, clientVars>>

\* what a lock block adds to the record of the call's own effects
Record(e, o) ==
    CASE o.op = "inc"   -> [e EXCEPT !.inc = @ + 1]
      [] o.op = "reset" -> [e EXCEPT !.reset = TRUE]
      [] OTHER          -> [e EXCEPT !.st = o.st]

\* the next lock block of the running handler
HandlerStep(p) ==
    /\ pc[p] \in {"handling", "op", "t_handling"}
    /\ todo[p] # <<>>
    /\ Apply(cur[p], Head(todo[p]))
    /\ todo' = [todo EXCEPT ![p] = Tail(@)]
    /\ eff' = IF pc[p] = "handling"
              THEN [eff EXCEPT ![p] = Record(@, Head(todo[p]))]
              ELSE eff
    /\ IF pc[p] = "op" /\ Len(todo[p]) = 1
       THEN /\ pc' = [pc EXCEPT ![p] = "idle"]
            /\ cur' = [cur EXCEPT ![p] = None]
       ELSE UNCHANGED <<pc, cur>>
    /\ UNCHANGED <<chat_count, in_use, acquired, last_chat, last_test,
                   health, events, ret, final_success, api_result,
                   test_result, targets, now, httpVars, sideVars, group_id,
                   mgrVars>>

\* the handler of the thread's chat has run; chat is about to return ret
Handled(p) == pc[p] = "handling" /\ todo[p] = <<>>

\* chat without its finally clause: an adapter that raises leaves in_use set
ReturnWithoutFinally(p) ==
    /\ Handled(p)
    /\ IF api_result[p].raised = None
       THEN /\ in_use' = [in_use EXCEPT ![cur[p]] = FALSE]
            /\ last_chat' = [last_chat EXCEPT ![cur[p]] = now]
            /\ events' = [events EXCEPT ![cur[p]] = Append(@, "chat_end")]
       ELSE UNCHANGED <<in_use, last_chat, events>>
    /\ pc' = [pc EXCEPT ![p] = AfterChat(p)]
    /\ Returns(p)
    /\ eff' = [eff EXCEPT ![p] = NoEff]
    /\ final_success' = [final_success EXCEPT ![p] = FALSE]
    /\ api_result' = [api_result EXCEPT ![p] = NotCalled]
    /\ UNCHANGED <<status, status_last_updated, error_count, error_sum,
                   chat_count, acquired, last_test, health, todo,
                   test_result, targets, now, httpVars, sideVars, group_id,
                   mgrVars>>

\* chat, lines 181-198: the finally clause, then the return
ChatFinally(p) ==
    /\ Handled(p)
    /\ in_use' = [in_use EXCEPT ![cur[p]] = FALSE]
    /\ last_chat' = [last_chat EXCEPT ![cur[p]] = now]
    /\ events' = [events EXCEPT ![cur[p]] = Append(@, "chat_end")]
    /\ pc' = [pc EXCEPT ![p] = AfterChat(p)]
    /\ Returns(p)
    /\ eff' = [eff EXCEPT ![p] = NoEff]
    /\ final_success' = [final_success EXCEPT ![p] = FALSE]
    /\ api_result' = [api_result EXCEPT ![p] = NotCalled]
    /\ UNCHANGED <<status, status_last_updated, error_count, error_sum,
                   chat_count, acquired, last_test, health, todo,
                   test_result, targets, now, httpVars, sideVars, group_id,
                   mgrVars>>

(***************************************************************************)
(* Callers                                                                 *)
(***************************************************************************)
\* a caller chats on the client the manager gave it
UserChat(u) ==
    /\ Idle(u)
    /\ user_client_map[u] # None
    /\ ChatAdmission(u, user_client_map[u])

\* complain_error, first lock block (_increase_error_count); the second
\* (_update_client_status(ERROR)) is left in todo
ComplainError(u) ==
    /\ Idle(u)
    /\ user_client_map[u] # None
    /\ LET c == user_client_map[u]
       IN  /\ error_sum[c] < MaxErrors
           /\ _increase_error_count(c)
           /\ cur' = [cur EXCEPT ![u] = c]
    /\ todo' = [todo EXCEPT ![u] = <<Upd("ERROR")>>]
    /\ pc' = [pc EXCEPT ![u] = "op"]
    /\ UNCHANGED <<chat_count, in_use, acquired, last_chat, last_test,
                   health, events, ret, final_success, api_result, eff,
                   test_result, targets, now, httpVars, sideVars, group_id,
                   mgrVars>>

(***************************************************************************)
(* Manager: registration, selection, release                               *)
(***************************************************************************)
\* list.sort(key=priority): a stable insertion sort
RECURSIVE InsertSorted(_, _)
InsertSorted(c, sorted) ==
    IF sorted = <<>> THEN <<c>>
    ELSE IF Priority(Head(sorted)) <= Priority(c)
         THEN <<Head(sorted)>> \o InsertSorted(c, Tail(sorted))
         ELSE <<c>> \o sorted

RECURSIVE SortByPriority(_)
SortByPriority(list) ==
    IF list = <<>> THEN <<>>
    ELSE InsertSorted(list[Len(list)], SortByPriority(SubSeq(list, 1, Len(list) - 1)))

Registered == {clients[i] : i \in 1..Len(clients)}

\* register_client
RegisterClient(c) ==
    /\ c \notin Registered
    /\ clients' = SortByPriority(Append(clients, c))
    /\ reg_order' = Append(reg_order, c)
    /\ UNCHANGED <<sel, user_client_map, group_limits, now, httpVars,
                   sideVars, group_id, clientVars, procVars>>

\* set_group_limit
MaxLimit == 2      \* limits run from 0 to MaxLimit
MaxLimited == 1    \* groups that are given a limit
SetGroupLimit(g, limit) ==
    /\ Cardinality(DOMAIN group_limits \cup {g}) <= MaxLimited
    /\ group_limits' = [h \in DOMAIN group_limits \cup {g} |->
                          IF h = g THEN limit ELSE group_limits[h]]
    /\ UNCHANGED <<clients, reg_order, sel, user_client_map, now, httpVars,
                   sideVars, group_id, clientVars, procVars>>

\* no call of get_available_client is observed
NoSel == [called |-> FALSE, user_name |-> None, request_change |-> FALSE,
          target_group_id |-> None, target_client_name |-> None,
          client |-> None]

\* _acquire without its test of acquired and of the status
AlwaysAcquire(acq, c) == TRUE

\* an _acquire that looks at the acquired flag only
AcquireUnlessHeld(acq, c) == ~acq[c]

\* an _acquire that refuses a client in ERROR as it refuses an UNAVAILABLE one
AcquireHealthyOnly(acq, c) ==
    ~(acq[c] \/ status[c] \in {"UNAVAILABLE", "ERROR"})

\* _acquire: whether it returns True
CanAcquire(acq, c) == ~(acq[c] \/ status[c] = "UNAVAILABLE")

\* get_available_client without the count of the holders of a group
NoGroupUsage(map, user_name, request_change, g) == 0

\* get_available_client, lines 707-719: the holders counted for group g,
\* the caller's own entry left out when request_change
GroupUsage(map, user_name, request_change, g) ==
    Cardinality({k \in Keys : /\ map[k] # None
                              /\ ~(request_change /\ k = user_name)
                              /\ GroupOf(map[k]) = g})

\* get_available_client, lines 692-796, as a function of the manager and
\* client state: the client returned and the map and acquired flags left
get_available_client(user_name, request_change, target_group_id, target_client_name) ==
    LET held == user_client_map[user_name]
        \* 2. cleanup of a dead holding
        dead == held # None /\ (held \notin Registered
                                \/ status[held] \in {"ERROR", "UNAVAILABLE"})
        map1 == IF dead THEN [user_client_map EXCEPT ![user_name] = None]
                ELSE user_client_map
        acq1 == IF dead THEN [acquired EXCEPT ![held] = FALSE] ELSE acquired
        current_client == IF dead THEN None ELSE held
        \* 3. group usage
        current_group_usage(g) ==
            GroupUsage(map1, user_name, request_change, g)
        \* 4. the filters of the loop body
        Skipped(c) ==
            \/ target_client_name # None /\ c # target_client_name
            \/ target_group_id # None /\ GroupOf(c) # target_group_id
            \/ request_change /\ c = current_client
            \/ status[c] = "UNAVAILABLE"
            \/ status[c] = "ERROR" /\ error_count[c] > 1
            \/ health[c] <= 0
            \/ /\ c # current_client
               /\ GroupOf(c) \in DOMAIN group_limits
               /\ current_group_usage(GroupOf(c)) >= group_limits[GroupOf(c)]
        \* selection: case A, case B, or on to the next client
        Taken(c) == ~Skipped(c) /\ (c = current_client
                                     \/ (~in_use[c] /\ CanAcquire(acq1, c)))
        Loop[i \in 1..(Len(clients) + 1)] ==
            IF i > Len(clients) THEN None
            ELSE IF Taken(clients[i]) THEN clients[i]
            ELSE Loop[i + 1]
        found == Loop[1]
    IN  IF found = None \/ found = current_client
        THEN [client |-> found, map |-> map1, acquired |-> acq1]
        ELSE [client |-> found,
              map |-> [map1 EXCEPT ![user_name] = found],
              acquired |-> [c \in Clients |->
                              IF c = found THEN TRUE
                              ELSE IF c = current_client THEN FALSE
                              ELSE acq1[c]]]

GetAvailableClient(u, request_change, target_group_id, target_client_name) ==
    /\ Idle(u)
    /\ LET r == get_available_client(u, request_change, target_group_id,
                                     target_client_name)
       IN  /\ user_client_map' = r.map
           /\ acquired' = r.acquired
    /\ UNCHANGED <<clients, reg_order, sel, group_limits, status,
                   status_last_updated, error_count, error_sum, chat_count,
                   in_use, last_chat, last_test, health, events, now,
                   httpVars, sideVars, group_id, procVars>>

\* get_available_client, with the call and the client it returns observed
Select(u, request_change, target_group_id, target_client_name) ==
    /\ Idle(u)
    /\ ~sel.called
    /\ LET r == get_available_client(u, request_change, target_group_id,
                                     target_client_name)
       IN  /\ user_client_map' = r.map
           /\ acquired' = r.acquired
           /\ sel' = [called |-> TRUE, user_name |-> u,
                      request_change |-> request_change,
                      target_group_id |-> target_group_id,
                      target_client_name |-> target_client_name,
                      client |-> r.client]
    /\ UNCHANGED <<clients, reg_order, group_limits, status,
                   status_last_updated, error_count, error_sum, chat_count,
                   in_use, last_chat, last_test, health, events, now,
                   httpVars, sideVars, group_id, procVars>>

\* release_client(client: BaseAIClient | str): the keys it removes
KeysToRemove(target) ==
    IF target \in Clients
    THEN {k \in Keys : user_client_map[k] = target}
    ELSE {k \in {target} : user_client_map[k] # None}

\* release_client, with _release_user_resources for every key
ReleaseClient(target) ==
    LET keys == KeysToRemove(target)
    IN  /\ keys # {}
        /\ acquired' = [c \in Clients |->
                          IF \E k \in keys : user_client_map[k] = c
                          THEN FALSE ELSE acquired[c]]
        /\ user_client_map' = [k \in Keys |->
                          IF k \in keys THEN None ELSE user_client_map[k]]
        /\ UNCHANGED <<clients, reg_order, sel, group_limits, status,
                       status_last_updated, error_count, error_sum,
                       chat_count, in_use, last_chat, last_test, health,
                       events, now, httpVars, sideVars, group_id, procVars>>

(***************************************************************************)
(* Dashboard and token rotation                                            *)
(***************************************************************************)
\* set_client_status: _update_client_status, then _reset_error_count in a
\* second lock block when the status is AVAILABLE
SetClientStatus(c, s) ==
    /\ pc["admin"] = "idle"
    /\ c \in Registered
    /\ _update_client_status(c, s)
    /\ IF s = "AVAILABLE"
       THEN /\ todo' = [todo EXCEPT !["admin"] = <<Reset>>]
            /\ cur' = [cur EXCEPT !["admin"] = c]
            /\ pc' = [pc EXCEPT !["admin"] = "op"]
       ELSE UNCHANGED <<todo, cur, pc>>
    /\ UNCHANGED <<chat_count, in_use, acquired, last_chat, last_test,
                   health, events, ret, final_success, api_result, eff,
                   test_result, targets, now, httpVars, sideVars, group_id,
                   mgrVars>>

\* StandardOpenAIClient.update_api_token
UpdateApiToken(c) ==
    /\ c \in Registered
    /\ _update_client_status(c, "UNKNOWN")
    /\ UNCHANGED <<chat_count, in_use, acquired, last_chat, last_test,
                   health, events, now, httpVars, sideVars, group_id, mgrVars,
                   procVars>>

(***************************************************************************)
(* Health checks: the monitor thread and trigger_manual_check              *)
(***************************************************************************)
\* _check_client_health, lines 1135-1171: the clients that are due (any of
\* them can be) and not acquired, in the order of the list
MonitorCollect(due) ==
    /\ pc["checker"] = "idle"
    /\ targets' = SelectSeq(clients, LAMBDA c : c \in due /\ ~acquired[c])
    /\ targets' # <<>>
    /\ pc' = [pc EXCEPT !["checker"] = "loop"]
    /\ UNCHANGED <<cur, todo, ret, final_success, api_result, eff,
                   test_result, now, httpVars, sideVars, group_id, mgrVars,
                   clientVars>>

\* trigger_manual_check, lines 932-936: the check of one named client,
\* whose body is that of the monitor's loop
TriggerManualCheck(c) ==
    /\ pc["checker"] = "idle"
    /\ c \in Registered
    /\ targets' = <<c>>
    /\ pc' = [pc EXCEPT !["checker"] = "loop"]
    /\ UNCHANGED <<cur, todo, ret, final_success, api_result, eff,
                   test_result, now, httpVars, sideVars, group_id, mgrVars,
                   clientVars>>

\* client._acquire() at the head of a health check (lines 938, 1179)
CheckAcquire ==
    /\ pc["checker"] = "loop"
    /\ targets # <<>>
    /\ targets' = Tail(targets)
    /\ LET c == Head(targets)
       IN  IF CanAcquire(acquired, c)
           THEN /\ acquired' = [acquired EXCEPT ![c] = TRUE]
                /\ pc' = [pc EXCEPT !["checker"] = "hc_acquired"]
                /\ cur' = [cur EXCEPT !["checker"] = c]
           ELSE UNCHANGED <<acquired, pc, cur>>
    /\ UNCHANGED <<status, status_last_updated, error_count, error_sum,
                   chat_count, in_use, last_chat, last_test, health, events,
                   todo, ret, final_success, api_result, eff, test_result,
                   now, httpVars, sideVars, group_id, mgrVars>>

\* no client is left to check
CheckDone ==
    /\ pc["checker"] = "loop"
    /\ targets = <<>>
    /\ pc' = [pc EXCEPT !["checker"] = "idle"]
    /\ UNCHANGED <<cur, todo, ret, final_success, api_result, eff,
                   test_result, targets, now, httpVars, sideVars, group_id,
                   mgrVars, clientVars>>

\* _set_test_user
_set_test_user(p) ==
    /\ pc[p] = "hc_acquired"
    /\ user_client_map' =
          [user_client_map EXCEPT ![_generate_test_user_name(cur[p])] = cur[p]]
    /\ pc' = [pc EXCEPT ![p] = "hc_test"]
    /\ UNCHANGED <<clients, reg_order, sel, group_limits, cur, todo, ret,
                   final_success, api_result, eff, test_result, targets, now,
                   httpVars, sideVars, group_id, clientVars>>

\* _test_and_update_status, line 370: the test chat
TestChat(p) ==
    /\ pc[p] = "hc_test"
    /\ ChatAdmission(p, cur[p])

\* a validate_response that does not look for the expected content
ValidAnyContent(response) == response.error = None

\* validate_response with expected_content: whether it returns no reason
Valid(response) == response.error = None /\ response.data = "ok_content"

\* _test_and_update_status, lines 376-394: what follows the test chat
TestValidate(p) ==
    /\ pc[p] = "t_validate"
    /\ IF ret[p].error # None
       THEN /\ todo' = [todo EXCEPT ![p] = <<>>]
            /\ test_result' = [test_result EXCEPT ![p] = "False"]
       ELSE IF ~Valid(ret[p])
       THEN /\ error_sum[cur[p]] < MaxErrors
            /\ todo' = [todo EXCEPT ![p] = <<Inc, Upd("ERROR")>>]
            /\ test_result' = [test_result EXCEPT ![p] = "False"]
       ELSE /\ todo' = [todo EXCEPT ![p] = <<Reset, Upd("AVAILABLE")>>]
            /\ test_result' = [test_result EXCEPT ![p] = "True"]
    /\ ret' = [ret EXCEPT ![p] = NoRet]
    /\ pc' = [pc EXCEPT ![p] = "t_handling"]
    /\ UNCHANGED <<cur, final_success, api_result, eff, targets, now,
                   httpVars, sideVars, group_id, mgrVars, clientVars>>

\* _test_and_update_status returns (its finally stamps last_test)
TestReturn(p) ==
    /\ pc[p] = "t_handling"
    /\ todo[p] = <<>>
    /\ last_test' = [last_test EXCEPT ![cur[p]] = now]
    /\ pc' = [pc EXCEPT ![p] = "hc_end"]
    /\ UNCHANGED <<status, status_last_updated, error_count, error_sum,
                   chat_count, in_use, acquired, last_chat, health, events,
                   cur, todo, ret, final_success, api_result, eff,
                   test_result, targets, now, httpVars, sideVars, group_id,
                   mgrVars>>

\* the finally of a health check: _clear_test_user, then client._release()
CheckEnd(p) ==
    /\ pc[p] = "hc_end"
    /\ user_client_map' =
          [user_client_map EXCEPT ![_generate_test_user_name(cur[p])] = None]
    /\ acquired' = [acquired EXCEPT ![cur[p]] = FALSE]
    /\ pc' = [pc EXCEPT ![p] = "loop"]
    /\ test_result' = [test_result EXCEPT ![p] = None]
    /\ cur' = [cur EXCEPT ![p] = None]
    /\ UNCHANGED <<clients, reg_order, sel, group_limits, status,
                   status_last_updated, error_count, error_sum, chat_count,
                   in_use, last_chat, last_test, health, events, todo, ret,
                   final_success, api_result, eff, targets, now, httpVars,
                   sideVars, group_id>>

(***************************************************************************)
(* Environment                                                             *)
(***************************************************************************)
\* the quota of a client runs out: calculate_health() falls to 0
MaxExhausted == 1  \* clients whose quota runs out
QuotaExhausted(c) ==
    /\ c \in Registered
    /\ health[c] > 0
    /\ Cardinality({d \in Clients : health[d] <= 0}) < MaxExhausted
    /\ health' = [health EXCEPT ![c] = 0]
    /\ UNCHANGED <<status, status_last_updated, error_count, error_sum,
                   chat_count, in_use, acquired, last_chat, last_test,
                   events, now, httpVars, sideVars, group_id, mgrVars,
                   procVars>>

\* time passes
Tick ==
    /\ now < MaxTime
    /\ now' = now + 1
    /\ UNCHANGED <<httpVars, sideVars, group_id, mgrVars, clientVars,
                   procVars>>

(***************************************************************************)
(* The manager with its clients, callers, dashboard and monitor            *)
(***************************************************************************)
\* the clients the application registers
Fleet == {"A"}

\* BaseAIClient.__init__ and AIClientManager.__init__
MainInit ==
    /\ now = 1
    /\ clients = <<>>
    /\ reg_order = <<>>
    /\ sel = NoSel
    /\ user_client_map = [k \in Keys |-> None]
    /\ group_limits = <<>>
    /\ status = [c \in Clients |-> "UNKNOWN"]
    /\ status_last_updated = [c \in Clients |-> 0]
    /\ error_count = [c \in Clients |-> 0]
    /\ error_sum = [c \in Clients |-> 0]
    /\ chat_count = [c \in Clients |-> 0]
    /\ in_use = [c \in Clients |-> FALSE]
    /\ acquired = [c \in Clients |-> FALSE]
    /\ last_chat = [c \in Clients |-> 0]
    /\ last_test = [c \in Clients |-> 0]
    /\ health = [c \in Clients |-> 100]
    /\ group_id = [c \in Clients |-> IF c = "C" THEN "H" ELSE "G"]
    /\ events = [c \in Clients |-> <<>>]
    /\ pc = [p \in Procs |-> "idle"]
    /\ cur = [p \in Procs |-> None]
    /\ todo = [p \in Procs |-> <<>>]
    /\ ret = [p \in Procs |-> NoRet]
    /\ final_success = [p \in Procs |-> FALSE]
    /\ api_result = [p \in Procs |-> NotCalled]
    /\ eff = [p \in Procs |-> NoEff]
    /\ test_result = [p \in Procs |-> None]
    /\ targets = <<>>

\* the HTTP core is not called on its own
HttpIdle ==
    /\ httpPc = "ready"
    /\ httpIn = [has_token |-> TRUE,
                 transport |-> [kind |-> "response", status |-> 200,
                                body |-> "ok_content", exc |-> None],
                 reset_fails |-> FALSE]
    /\ httpOut = NoResult
    /\ tries = 0

Init == HttpIdle /\ SideIdle /\ MainInit

Next ==
    \/ \E c \in Fleet : RegisterClient(c)
    \/ \E u \in Callers, rc \in BOOLEAN, tg \in {None} \cup Groups,
          tn \in {None} \cup Fleet : GetAvailableClient(u, rc, tg, tn)
    \/ \E t \in Callers \cup Fleet : ReleaseClient(t)
    \/ \E u \in Callers : UserChat(u)
    \/ \E u \in Callers : ComplainError(u)
    \/ \E p \in Procs : ChatRejected(p)
    \/ \E p \in Procs, o \in FewOutcomes : AdapterReturn(p, o)
    \/ \E p \in Procs : HandlerStep(p)
    \/ \E p \in Procs : ChatFinally(p)
    \/ \E c \in Fleet, s \in Statuses : SetClientStatus(c, s)
    \/ \E c \in Fleet : UpdateApiToken(c)
    \/ \E c \in Fleet : TriggerManualCheck(c)
    \/ \E due \in SUBSET Fleet : MonitorCollect(due)
    \/ CheckAcquire
    \/ CheckDone
    \/ _set_test_user("checker")
    \/ TestChat("checker")
    \/ TestValidate("checker")
    \/ TestReturn("checker")
    \/ CheckEnd("checker")
    \/ Tick

Spec == Init /\ [][Next]_vars

(***************************************************************************)
(* The HTTP core called on every input                                     *)
(***************************************************************************)
InitHttp == HttpInit /\ SideIdle /\ MainInit

HttpNext == HttpCall /\ UNCHANGED <<sideVars, mainVars>>

SpecHttp == InitHttp /\ [][HttpNext]_vars

(***************************************************************************)
(* One caller chatting on its client, the adapter doing all it can do      *)
(***************************************************************************)
ChatNext ==
    \/ RegisterClient("A")
    \/ GetAvailableClient("u1", FALSE, None, None)
    \/ UserChat("u1")
    \/ ChatRejected("u1")
    \/ \E o \in AdapterOutcomes : AdapterReturn("u1", o)
    \/ HandlerStep("u1")
    \/ ChatFinally("u1")
    \/ ComplainError("u1")
    \/ Tick

SpecChat == Init /\ [][ChatNext]_vars

(***************************************************************************)
(* Error -> State                                                          *)
(***************************************************************************)
\* the adapter of p's chat returned a failed APIResult that carries an
\* error, and the handler has run: chat is about to return ret[p]
FailedResult(p) ==
    /\ Handled(p)
    /\ api_result[p].raised = None
    /\ ~api_result[p].result.success
    /\ api_result[p].result.error # NoError

ErrorOf(p) == api_result[p].result.error

\* the chat of p counted one error and set the status to s
CountedAs(p, s) ==
    /\ eff[p] = [inc |-> 1, reset |-> FALSE, st |-> s]
    /\ status[cur[p]] = s

\* C1: when the adapter returns a failed APIResult of type BAD_REQUEST with
\* code HTTP_400, chat writes neither status nor error_count nor error_sum
\* and returns error_type fatal
C1_BadRequestUntouched ==
    \A p \in Callers :
        /\ FailedResult(p)
        /\ ErrorOf(p).type = "BAD_REQUEST"
        /\ ErrorOf(p).code = HTTP_400
        => eff[p] = NoEff /\ ret[p].error_type = "fatal"

\* C2: every failed APIResult is answered by unified_api_error with the
\* original code and type; PERMANENT with HTTP_400 writes nothing and is
\* fatal, any other PERMANENT counts one error, sets UNAVAILABLE and is
\* fatal, TRANSIENT_SERVER and TRANSIENT_NETWORK count one error, set ERROR
\* and are recoverable
C2_ErrorStateTable ==
    \A p \in Callers :
        FailedResult(p) =>
            LET e == ErrorOf(p)
                r == ret[p]
            IN  /\ r.error = "unified_api_error"
                /\ r.api_error_code = e.code
                /\ r.api_error_type = e.type
                /\ e.type = "PERMANENT" /\ e.code = HTTP_400
                   => eff[p] = NoEff /\ r.error_type = "fatal"
                /\ e.type = "PERMANENT" /\ e.code # HTTP_400
                   => CountedAs(p, "UNAVAILABLE") /\ r.error_type = "fatal"
                /\ e.type \in {"TRANSIENT_SERVER", "TRANSIENT_NETWORK"}
                   => CountedAs(p, "ERROR") /\ r.error_type = "recoverable"

\* a chat whose adapter returned PERMANENT/HTTP_401 is about to return
C2_Witness ==
    /\ FailedResult("u1")
    /\ ErrorOf("u1").type = "PERMANENT"
    /\ ErrorOf("u1").code = HttpCode(401)

(***************************************************************************)
(* The HTTP core's results                                                 *)
(***************************************************************************)
\* the core has answered a request that reached the server
Answered ==
    /\ httpPc = "returned"
    /\ httpIn.has_token
    /\ httpIn.transport.kind = "response"

IsError(r, type, code) ==
    ~r.success /\ r.error # NoError /\ r.error.type = type /\ r.error.code = code

\* C3: the result for response status s is success for 200 (with a body
\* that is JSON), BAD_REQUEST/HTTP_400 for 400, PERMANENT/HTTP_<s> for 401,
\* 403 and 404, TRANSIENT_SERVER/HTTP_<s> for 429 and for 500..599, and
\* PERMANENT/HTTP_<s> for every other status
C3_ClassificationTable ==
    Answered =>
        LET s == httpIn.transport.status
            r == httpOut
        IN  CASE s = 200 -> httpIn.transport.body # "not_json" => r.success
              [] s = 400 -> IsError(r, "BAD_REQUEST", HTTP_400)
              [] s \in {401, 403, 404} -> IsError(r, "PERMANENT", HttpCode(s))
              [] s = 429 -> IsError(r, "TRANSIENT_SERVER", HttpCode(s))
              [] 500 <= s /\ s < 600 -> IsError(r, "TRANSIENT_SERVER", HttpCode(s))
              [] OTHER -> IsError(r, "PERMANENT", HttpCode(s))

\* C4: whatever the transport does, the call returns an APIResult in which
\* exactly one of data and error is populated: success with data and no
\* error, or failure with an error of type, code and message and no data
C4_ExactlyOnePopulated ==
    httpPc = "returned" =>
        LET r == httpOut
        IN  \/ r.success /\ r.data # None /\ r.error = NoError
            \/ /\ ~r.success
               /\ r.data = None
               /\ r.error # NoError
               /\ r.error.type # None
               /\ r.error.code # <<>>
               /\ r.error.message # None

(***************************************************************************)
(* Admission and the finally clause                                        *)
(***************************************************************************)
\* the chats past admission on client c
Running(c) == {p \in Procs : InFlight(p) /\ cur[p] = c}

\* this step admits a chat of p
Admits(p) == ~InFlight(p) /\ pc'[p] = "calling"
\* this step rejects a chat of p
Rejects(p) == pc[p] # "rejected" /\ pc'[p] = "rejected"
\* in this step the chat of p returns after its handler
ChatReturns(p) == InFlight(p) /\ ~(pc'[p] \in {"calling", "handling"})

AtMostOneRunning ==
    \A c \in Clients :
        /\ Cardinality(Running(c)) <= 1
        /\ in_use[c] <=> Running(c) # {}

AdmissionStep ==
    \A p \in Procs :
        /\ Admits(p) =>
              LET c == cur'[p]
              IN  /\ status[c] # "UNAVAILABLE"
                  /\ ~in_use[c]
                  /\ in_use'[c]
                  /\ chat_count'[c] = chat_count[c] + 1
        /\ Rejects(p) =>
              /\ ret'[p].error \in {"client_unavailable", "client_busy"}
              /\ UNCHANGED clientVars

\* C5: at most one chat per client is past admission; a call is admitted
\* only when the status is not UNAVAILABLE and in_use is false, and the
\* admitting step sets in_use and adds one to chat_count; a rejected call
\* changes nothing of the client: no field, no event, not in_use
C5_OneChatPastAdmission == [][AtMostOneRunning /\ AtMostOneRunning' /\ AdmissionStep]_vars

\* a health check's test chat is rejected as busy while a caller's chat runs
C5_Witness ==
    /\ pc["checker"] = "rejected"
    /\ ret["checker"].error = "client_busy"
    /\ InFlight("u1")
    /\ cur["u1"] = cur["checker"]
    /\ in_use[cur["u1"]]

\* the log of a client is chat_start, chat_end, chat_start, ... with a
\* chat_start for every admitted chat and an open chat_start exactly while
\* the chat runs
RECURSIVE Alternates(_, _)
Alternates(log, want) ==
    log = <<>> \/ (Head(log) = want /\
                   Alternates(Tail(log), IF want = "chat_start" THEN "chat_end"
                                         ELSE "chat_start"))

EventsPaired ==
    \A c \in Clients :
        /\ Alternates(events[c], "chat_start")
        /\ Len(events[c]) = 2 * chat_count[c] - (IF in_use[c] THEN 1 ELSE 0)

ReturnStep ==
    \A p \in Procs :
        ChatReturns(p) =>
            LET c == cur[p]
            IN  /\ ~in_use'[c]
                /\ last_chat'[c] = now
                /\ events'[c] = Append(events[c], "chat_end")

\* C6: whatever the adapter does, when an admitted chat returns in_use is
\* false, last_chat is the time of the return, and the chat has emitted one
\* chat_start followed by one chat_end
C6_FinallyRestores == [][EventsPaired /\ EventsPaired' /\ ReturnStep]_vars

\* a chat that ended in a fatal error has returned, later than time 1
C6_Witness ==
    /\ events["A"] = <<"chat_start", "chat_end">>
    /\ ~in_use["A"]
    /\ now > 1
    /\ last_chat["A"] = now
    /\ status["A"] = "UNAVAILABLE"
    /\ error_count["A"] = 1

(***************************************************************************)
(* Error counter, lease and UNAVAILABLE                                    *)
(***************************************************************************)
\* in this step _test_and_update_status of p returns
TestReturns(p) == pc[p] = "t_handling" /\ pc'[p] = "hc_end"

SuccessStep ==
    \A p \in Procs :
        /\ ChatReturns(p) /\ IsSuccess(ret[p]) => error_count'[cur[p]] = 0
        /\ TestReturns(p) /\ test_result[p] = "True" => error_count'[cur[p]] = 0

\* C7: error_count is 0 when a chat returns a success result and when
\* _test_and_update_status returns true
C7_ZeroAfterSuccess == [][SuccessStep]_vars

\* the client is leased: acquired and recorded in user_client_map under a
\* caller or under the health check's test user
Leased(c) == acquired[c] /\ \E k \in Keys : user_client_map[k] = c

\* C8: a client that is in use is leased
C8_InUseImpliesLeased == \A c \in Clients : in_use[c] => Leased(c)

\* in this step the status of c leaves UNAVAILABLE
LeavesUnavailable(c) == status[c] = "UNAVAILABLE" /\ status'[c] # "UNAVAILABLE"

\* C9: a status leaves UNAVAILABLE only in a step of set_client_status (the
\* monitor has no step that resets a status to UNKNOWN)
C9_UnavailableIsTerminal ==
    [][\A c \in Clients :
          LeavesUnavailable(c) => \E s \in Statuses : SetClientStatus(c, s)]_vars

(***************************************************************************)
(* Selection on a fleet of three clients                                   *)
(***************************************************************************)
\* register_client called for each client of the sequence
RECURSIVE RegisterAll(_)
RegisterAll(order) ==
    IF order = <<>> THEN <<>>
    ELSE SortByPriority(Append(RegisterAll(SubSeq(order, 1, Len(order) - 1)),
                               order[Len(order)]))

RegOrders == {<<"A", "B", "C">>, <<"C", "B", "A">>}

\* status and error_count a client can have reached
Conditions == {[status |-> "AVAILABLE", error_count |-> 0],
               [status |-> "ERROR", error_count |-> 1],
               [status |-> "ERROR", error_count |-> 2],
               [status |-> "UNAVAILABLE", error_count |-> 1]}

\* the fleet is registered; the callers hold clients; a test chat may be
\* running on B
SelectInit ==
    /\ HttpIdle
    /\ SideIdle
    /\ now = 1
    /\ reg_order \in RegOrders
    /\ clients = RegisterAll(reg_order)
    /\ sel = NoSel
    /\ group_limits = <<>>
    /\ \E h1 \in {None} \cup Clients, h2 \in {None, "B", "C"} :
          /\ h1 = None \/ h1 # h2
          /\ user_client_map = [k \in Keys |-> IF k = "u1" THEN h1
                                               ELSE IF k = "u2" THEN h2
                                               ELSE None]
          /\ acquired = [c \in Clients |-> c \in {h1, h2}]
    /\ \E cond \in [Clients -> Conditions] :
          /\ cond["C"].status # "UNAVAILABLE"
          /\ status = [c \in Clients |-> cond[c].status]
          /\ status_last_updated = [c \in Clients |-> 1]
          /\ error_count = [c \in Clients |-> cond[c].error_count]
          /\ error_sum = [c \in Clients |-> cond[c].error_count]
    /\ \E busy \in {None, "B"} :
          /\ in_use = [c \in Clients |-> c = busy]
          /\ chat_count = [c \in Clients |-> IF c = busy THEN 1 ELSE 0]
          /\ events = [c \in Clients |-> IF c = busy THEN <<"chat_start">>
                                         ELSE <<>>]
          /\ pc = [p \in Procs |-> IF p = "checker" /\ busy # None
                                   THEN "calling" ELSE "idle"]
          /\ cur = [p \in Procs |-> IF p = "checker" THEN busy ELSE None]
    /\ last_chat = [c \in Clients |-> 0]
    /\ last_test = [c \in Clients |-> 0]
    /\ health = [c \in Clients |-> 100]
    /\ group_id = [c \in Clients |-> IF c = "C" THEN "H" ELSE "G"]
    /\ todo = [p \in Procs |-> <<>>]
    /\ ret = [p \in Procs |-> NoRet]
    /\ final_success = [p \in Procs |-> FALSE]
    /\ api_result = [p \in Procs |-> NotCalled]
    /\ eff = [p \in Procs |-> NoEff]
    /\ test_result = [p \in Procs |-> None]
    /\ targets = <<>>

SelectNext ==
    \/ \E g \in Groups, limit \in 0..MaxLimit : ~sel.called /\ SetGroupLimit(g, limit)
    \/ \E c \in Clients : ~sel.called /\ QuotaExhausted(c)
    \/ \E rc \in BOOLEAN, tg \in {None, "H"}, tn \in {None, "B"} :
          Select("u1", rc, tg, tn)

SpecSelect == SelectInit /\ [][SelectNext]_vars

\* c comes before d in ascending priority, registration order among equals
RECURSIVE IndexOf(_, _)
IndexOf(seq, x) == IF Head(seq) = x THEN 1 ELSE 1 + IndexOf(Tail(seq), x)

Before(c, d) ==
    \/ Priority(c) < Priority(d)
    \/ Priority(c) = Priority(d) /\ IndexOf(reg_order, c) < IndexOf(reg_order, d)

\* the holdings that count for the limit of group g
UsageOf(u, request_change, g) ==
    Cardinality({k \in Keys : /\ user_client_map[k] # None
                              /\ ~(request_change /\ k = u)
                              /\ GroupOf(user_client_map[k]) = g})

\* c passes every filter and can be given to caller u
Eligible(c, u, request_change, target_group_id, target_client_name) ==
    LET holding == user_client_map[u]
    IN  /\ c \in Registered
        /\ target_client_name # None => c = target_client_name
        /\ target_group_id # None => GroupOf(c) = target_group_id
        /\ request_change => c # holding
        /\ status[c] # "UNAVAILABLE"
        /\ ~(status[c] = "ERROR" /\ error_count[c] > 1)
        /\ health[c] > 0
        /\ \/ c = holding
           \/ GroupOf(c) \notin DOMAIN group_limits
           \/ UsageOf(u, request_change, GroupOf(c)) < group_limits[GroupOf(c)]
        /\ c = holding \/ (~in_use[c] /\ CanAcquire(acquired, c))

\* the first eligible client, none when there is none
FirstEligible(u, request_change, target_group_id, target_client_name) ==
    LET ok == {c \in Clients : Eligible(c, u, request_change, target_group_id,
                                        target_client_name)}
    IN  IF ok = {} THEN None
        ELSE CHOOSE c \in ok : \A d \in ok \ {c} : Before(c, d)

\* C10: get_available_client returns the first client, in ascending priority
\* and registration order among equal priorities, that passes every filter
\* (target name, target group, not the caller's holding when request_change,
\* not UNAVAILABLE, not ERROR with error_count > 1, health above 0, group
\* limit not reached unless it is the caller's holding) and that is the
\* caller's holding or is not busy and can be acquired; none when there is
\* no such client
C10_FirstEligibleReturned ==
    [][~sel.called /\ sel'.called =>
          sel'.client = FirstEligible(sel'.user_name, sel'.request_change,
                                      sel'.target_group_id,
                                      sel'.target_client_name)]_vars

(***************************************************************************)
(* Three callers on a registered fleet of AVAILABLE clients                 *)
(***************************************************************************)
\* the caller lets go of the reference that get_available_client returned
SelDrop ==
    /\ sel.called
    /\ sel' = NoSel
    /\ UNCHANGED <<clients, reg_order, user_client_map, group_limits, now,
                   httpVars, sideVars, group_id, clientVars, procVars>>

\* the group_id given to the clients: one group, or C in a group of its own
GroupAssignments == {[c \in Clients |-> "G"],
                     [c \in Clients |-> IF c = "C" THEN "H" ELSE "G"]}

\* the fleet is registered and every client has passed a health check
FleetInit ==
    /\ HttpIdle
    /\ SideIdle
    /\ now = 1
    /\ reg_order = <<"A", "B", "C">>
    /\ clients = RegisterAll(reg_order)
    /\ sel = NoSel
    /\ user_client_map = [k \in Keys |-> None]
    /\ group_limits = <<>>
    /\ group_id \in GroupAssignments
    /\ status = [c \in Clients |-> "AVAILABLE"]
    /\ status_last_updated = [c \in Clients |-> 1]
    /\ error_count = [c \in Clients |-> 0]
    /\ error_sum = [c \in Clients |-> 0]
    /\ chat_count = [c \in Clients |-> 0]
    /\ in_use = [c \in Clients |-> FALSE]
    /\ acquired = [c \in Clients |-> FALSE]
    /\ last_chat = [c \in Clients |-> 0]
    /\ last_test = [c \in Clients |-> 0]
    /\ health = [c \in Clients |-> 100]
    /\ events = [c \in Clients |-> <<>>]
    /\ pc = [p \in Procs |-> "idle"]
    /\ cur = [p \in Procs |-> None]
    /\ todo = [p \in Procs |-> <<>>]
    /\ ret = [p \in Procs |-> NoRet]
    /\ final_success = [p \in Procs |-> FALSE]
    /\ api_result = [p \in Procs |-> NotCalled]
    /\ eff = [p \in Procs |-> NoEff]
    /\ test_result = [p \in Procs |-> None]
    /\ targets = <<>>

\* what the backend does to the chats of the scenarios, which run on A
ScenarioOutcomes ==
    {Returned(SuccessResult("ok_content")),
     Returned(_make_error_result("TRANSIENT_SERVER", HTTP_503))}

FleetNext ==
    \/ \E g \in Groups, limit \in 0..MaxLimit :
          ~sel.called /\ SetGroupLimit(g, limit)
    \/ \E u \in Users, rc \in BOOLEAN : Select(u, rc, None, None)
    \/ SelDrop
    \/ user_client_map["u1"] = "A" /\ UserChat("u1")
    \/ \E o \in ScenarioOutcomes : AdapterReturn("u1", o)
    \/ HandlerStep("u1")
    \/ ChatFinally("u1")

SpecFleet == FleetInit /\ [][FleetNext]_vars

\* this step is a call of get_available_client by u
Selects(u) == ~sel.called /\ sel'.called /\ sel'.user_name = u

\* nobody but u1 holds a client, no group is limited, B is AVAILABLE and free
S1Setting ==
    /\ user_client_map["u1"] = "A"
    /\ \A k \in Keys \ {"u1"} : user_client_map[k] = None
    /\ group_limits = <<>>
    /\ status["B"] = "AVAILABLE" /\ ~acquired["B"] /\ ~in_use["B"]
    /\ status["A"] = "ERROR"
    /\ Idle("u1")

\* the chats that have run on A, which is in ERROR: one (it failed), or two
\* that both failed
FailedOnce == chat_count["A"] = 1
FailedTwice == chat_count["A"] = 2 /\ error_sum["A"] = 2

S1Step ==
    Selects("u1") /\ ~sel'.request_change /\ S1Setting =>
        /\ FailedOnce =>
              /\ error_count["A"] = 1
              /\ sel'.client = "A"
              /\ user_client_map'["u1"] = "A"
        /\ FailedTwice =>
              /\ error_count["A"] = 2
              /\ sel'.client = "B"
              /\ user_client_map'["u1"] = "B"
              /\ ~acquired'["A"]

\* C11: caller u1 holds A (priority 0), B (priority 50) is AVAILABLE and
\* free. After one TRANSIENT_SERVER failure of A's chat (A in ERROR with
\* error_count 1) get_available_client(u1) returns A again; after a second
\* consecutive failure (error_count 2) it returns B, u1's entry points to B
\* and A is no longer acquired
C11_ScenarioS1 == [][S1Step]_vars

\* after two failures on A the caller has been moved to B
C11_Witness ==
    /\ sel.called /\ sel.user_name = "u1" /\ ~sel.request_change
    /\ sel.client = "B"
    /\ user_client_map["u1"] = "B"
    /\ FailedTwice /\ status["A"] = "ERROR" /\ error_count["A"] = 2
    /\ ~acquired["A"] /\ acquired["B"]

\* the clients of the map and the clients that are acquired
Held == {user_client_map[k] : k \in Keys} \ {None}
AcquiredSet == {c \in Clients : acquired[c]}

\* one group G limited to 2 with three AVAILABLE clients; u1 and u2 hold one
\* each, u3 holds none; nobody is chatting
S3Setting ==
    /\ \A c \in Clients : GroupOf(c) = "G" /\ status[c] = "AVAILABLE"
                          /\ ~in_use[c]
    /\ DOMAIN group_limits = {"G"} /\ group_limits["G"] = 2
    /\ user_client_map["u1"] # None /\ user_client_map["u2"] # None
    /\ user_client_map["u1"] # user_client_map["u2"]
    /\ \A k \in Keys \ {"u1", "u2"} : user_client_map[k] = None
    /\ AcquiredSet = Held
    /\ Idle("u1")

S3Step ==
    S3Setting =>
        LET X == user_client_map["u1"]
            Y == user_client_map["u2"]
            Z == CHOOSE c \in Clients : c \notin {X, Y}
        IN  /\ Selects("u3") =>
                  /\ sel'.client = None
                  /\ UNCHANGED <<user_client_map, acquired>>
            /\ Selects("u1") /\ sel'.request_change =>
                  /\ sel'.client = Z
                  /\ user_client_map' = [k \in Keys |->
                        IF k = "u1" THEN Z ELSE IF k = "u2" THEN Y ELSE None]
                  /\ {c \in Clients : acquired'[c]} = {Z, Y}

\* C12: with group G limited to 2, three AVAILABLE clients in G and callers
\* u1 and u2 holding X and Y, a request of u3 returns none, and
\* get_available_client(u1, request_change) returns Z, releases X and leaves
\* the map {u1 -> Z, u2 -> Y} with exactly 2 clients of G acquired
C12_ScenarioS3 == [][S3Step]_vars

\* u1 has swapped A for C inside the full group
C12_Witness ==
    /\ sel.called /\ sel.user_name = "u1" /\ sel.request_change
    /\ sel.client = "C"
    /\ \A c \in Clients : GroupOf(c) = "G"
    /\ DOMAIN group_limits = {"G"} /\ group_limits["G"] = 2
    /\ user_client_map["u1"] = "C" /\ user_client_map["u2"] = "B"
    /\ user_client_map["u3"] = None
    /\ AcquiredSet = {"B", "C"}

(***************************************************************************)
(* Group limits                                                            *)
(***************************************************************************)
\* this step is a call of get_available_client by u that acquires c: c is
\* returned, and not as the holding that u keeps
Acquires(u, c) ==
    /\ Selects(u)
    /\ sel'.client = c
    /\ ~(user_client_map[u] = c /\ status[c] \notin {"ERROR", "UNAVAILABLE"})

\* the entries of the map that hold a client of group g
HoldersOf(g) ==
    Cardinality({k \in Keys : /\ user_client_map[k] # None
                              /\ GroupOf(user_client_map[k]) = g})

\* u holds a client of another group than g, asks for a change, and g has
\* as many holders as its limit allows
FullForOutsider(u, g) ==
    /\ sel'.request_change
    /\ user_client_map[u] # None
    /\ GroupOf(user_client_map[u]) # g
    /\ HoldersOf(g) = group_limits[g]

LimitStep ==
    \A u \in Users, c \in Clients :
        LET g == GroupOf(c)
        IN  g \in DOMAIN group_limits /\ Selects(u) =>
                /\ group_limits[g] = 0 => ~Acquires(u, c)
                /\ FullForOutsider(u, g) => ~Acquires(u, c)

\* C13: while the limit of a group is 0 no call of get_available_client
\* acquires a client of the group; and a caller that holds a client of
\* another group and asks for a change never acquires a client of a group
\* whose holders already number its limit
C13_LimitNeverExceeded == [][LimitStep]_vars

\* u1 holds C of group H and asked for a change while group G, limited to 1,
\* had its one holder: none was returned
C13_Witness ==
    /\ sel.called /\ sel.user_name = "u1" /\ sel.request_change
    /\ sel.client = None
    /\ user_client_map["u1"] = "C" /\ GroupOf("C") = "H"
    /\ DOMAIN group_limits = {"G"} /\ group_limits["G"] = 1
    /\ HoldersOf("G") = 1
    /\ \A c \in Clients : status[c] = "AVAILABLE"

(***************************************************************************)
(* The map of holdings                                                     *)
(***************************************************************************)
\* C14: no two entries of user_client_map, of callers or of the health
\* check's test user, refer to the same client, and the client of every
\* entry is registered (the map is keyed by caller, so a caller has at most
\* one entry)
C14_MapIsInjective ==
    /\ \A k1, k2 \in Keys :
          /\ k1 # k2
          /\ user_client_map[k1] # None
          => user_client_map[k1] # user_client_map[k2]
    /\ \A k \in Keys :
          user_client_map[k] # None => user_client_map[k] \in Registered

(***************************************************************************)
(* The monitor's schedule                                                  *)
(***************************************************************************)
base_check_interval_sec == 2   \* AIClientManager(base_check_interval_sec)
MaxClock == 67                 \* the monitor's clock stops here
MaxBackoff == 5                \* error_count of the clients the monitor meets

\* AIClientManager.__init__, lines 640-642
reset_fatal_interval == base_check_interval_sec * 30
check_error_interval == base_check_interval_sec
check_stable_interval == base_check_interval_sec * 15

RECURSIVE Pow2(_)
Pow2(n) == IF n = 0 THEN 1 ELSE 2 * Pow2(n - 1)

Min(a, b) == IF a < b THEN a ELSE b
Max(a, b) == IF a > b THEN a ELSE b

\* _check_client_health with the exponent of the backoff left uncapped
TimeoutUncapped(c) ==
    CASE status[c] = "AVAILABLE"   -> check_stable_interval
      [] status[c] = "UNAVAILABLE" -> reset_fatal_interval
      [] status[c] = "UNKNOWN"     -> 0
      [] OTHER -> check_error_interval * Pow2(error_count[c])

\* _check_client_health, lines 1146-1161: the interval chosen by the status
Timeout(c) ==
    CASE status[c] = "AVAILABLE"   -> check_stable_interval
      [] status[c] = "UNAVAILABLE" -> reset_fatal_interval
      [] status[c] = "UNKNOWN"     -> 0
      [] OTHER -> check_error_interval * Pow2(Min(error_count[c], 4))

\* _check_client_health, lines 1142 and 1165
IsDue(c) == now - Max(last_chat[c], last_test[c]) > Timeout(c)

\* _check_client_health, lines 1135-1171: clients_to_check
clients_to_check == SelectSeq(clients, LAMBDA c : IsDue(c) /\ ~acquired[c])

\* a tick of the monitor: _check_client_health at the current time
MonitorTick == MonitorCollect({c \in Clients : IsDue(c)})

\* _monitor_loop, line 1103: time.sleep(check_error_interval)
MonitorSleep ==
    /\ pc["checker"] = "idle"
    /\ now + check_error_interval <= MaxClock
    /\ now' = now + check_error_interval
    /\ UNCHANGED <<httpVars, sideVars, group_id, mgrVars, clientVars,
                   procVars>>

\* the backend answers every chat correctly
GoodOutcomes == {Returned(SuccessResult("ok_content"))}

\* client A is registered and has a history: a status, errors counted, a
\* last chat and a last test; caller u1 may hold it
MonitorInit ==
    /\ HttpIdle
    /\ SideIdle
    /\ now = 4
    /\ reg_order = <<"A">>
    /\ clients = RegisterAll(reg_order)
    /\ sel = NoSel
    /\ group_limits = <<>>
    /\ group_id = [c \in Clients |-> IF c = "C" THEN "H" ELSE "G"]
    /\ \E held \in BOOLEAN :
          /\ acquired = [c \in Clients |-> c = "A" /\ held]
          /\ user_client_map = [k \in Keys |->
                IF k = "u1" /\ held THEN "A" ELSE None]
    /\ \E st \in Statuses, n \in 0..MaxBackoff, lc \in 0..3, lt \in 0..3 :
          /\ st = "AVAILABLE" => n = 0
          /\ st = "UNKNOWN" => lc = 0 /\ lt = 0
          /\ lc = 0 \/ lt = 0 \/ lc # lt
          /\ status = [c \in Clients |-> IF c = "A" THEN st ELSE "UNKNOWN"]
          /\ status_last_updated = [c \in Clients |->
                IF c = "A" /\ st # "UNKNOWN" THEN Max(1, Max(lc, lt)) ELSE 0]
          /\ error_count = [c \in Clients |-> IF c = "A" THEN n ELSE 0]
          /\ error_sum = [c \in Clients |-> IF c = "A" THEN n ELSE 0]
          /\ last_chat = [c \in Clients |-> IF c = "A" THEN lc ELSE 0]
          /\ last_test = [c \in Clients |-> IF c = "A" THEN lt ELSE 0]
          /\ chat_count = [c \in Clients |->
                IF c = "A" /\ lc + lt > 0 THEN 1 ELSE 0]
          /\ events = [c \in Clients |->
                IF c = "A" /\ lc + lt > 0 THEN <<"chat_start", "chat_end">>
                ELSE <<>>]
    /\ in_use = [c \in Clients |-> FALSE]
    /\ health = [c \in Clients |-> 100]
    /\ pc = [p \in Procs |-> "idle"]
    /\ cur = [p \in Procs |-> None]
    /\ todo = [p \in Procs |-> <<>>]
    /\ ret = [p \in Procs |-> NoRet]
    /\ final_success = [p \in Procs |-> FALSE]
    /\ api_result = [p \in Procs |-> NotCalled]
    /\ eff = [p \in Procs |-> NoEff]
    /\ test_result = [p \in Procs |-> None]
    /\ targets = <<>>

MonitorNext ==
    \/ MonitorSleep
    \/ MonitorTick
    \/ CheckAcquire
    \/ CheckDone
    \/ _set_test_user("checker")
    \/ TestChat("checker")
    \/ \E o \in GoodOutcomes : AdapterReturn("checker", o)
    \/ HandlerStep("checker")
    \/ ChatFinally("checker")
    \/ TestValidate("checker")
    \/ TestReturn("checker")
    \/ CheckEnd("checker")

SpecMonitor == MonitorInit /\ [][MonitorNext]_vars

\* the time since the client's last activity
Elapsed(c) == now - Max(last_chat[c], last_test[c])

\* the table of intervals, in units of the base interval
TableFactor(c) ==
    CASE status[c] = "AVAILABLE"   -> 15
      [] status[c] = "UNAVAILABLE" -> 30
      [] status[c] = "UNKNOWN"     -> 0
      [] OTHER -> CASE error_count[c] = 0 -> 1
                    [] error_count[c] = 1 -> 2
                    [] error_count[c] = 2 -> 4
                    [] error_count[c] = 3 -> 8
                    [] OTHER -> 16

ScheduledByTable(c) ==
    /\ ~acquired[c]
    /\ Elapsed(c) > TableFactor(c) * base_check_interval_sec

\* what a tick would schedule is what the table says
ScheduleInv ==
    pc["checker"] = "idle" =>
        \A c \in Registered :
            (\E i \in 1..Len(clients_to_check) : clients_to_check[i] = c)
            <=> ScheduledByTable(c)

\* a tick schedules the clients of the table
TickStep ==
    pc["checker"] = "idle" /\ pc'["checker"] = "loop" =>
        {targets'[i] : i \in 1..Len(targets')}
            = {c \in Registered : ScheduledByTable(c)}

\* C15: on a health tick a client is scheduled exactly when it is not
\* acquired and the time since max(last_chat, last_test) exceeds 15 x base
\* for AVAILABLE, 30 x base for UNAVAILABLE, 0 for UNKNOWN and
\* base x 2^min(error_count, 4) for ERROR (8 x base at error_count 3,
\* 16 x base from error_count 4 on)
C15_ScheduleTable == [][ScheduleInv /\ ScheduleInv' /\ TickStep]_vars

\* a client in ERROR with error_count 5 has been scheduled one second after
\* 16 x base had elapsed
C15_Witness ==
    /\ pc["checker"] = "loop"
    /\ targets = <<"A">>
    /\ status["A"] = "ERROR" /\ error_count["A"] = 5
    /\ Elapsed("A") = 16 * base_check_interval_sec + 1

\* the monitor thread keeps running: it sleeps, ticks and carries every
\* check it has started to its end
SpecMonitorFair == SpecMonitor /\ WF_vars(MonitorNext)

\* C16: an UNAVAILABLE client that nobody has acquired, and whose backend
\* answers correctly, eventually leaves UNAVAILABLE by the monitor's doing
C16_UnavailableRechecked ==
    \A c \in Clients :
        (c \in Registered /\ status[c] = "UNAVAILABLE" /\ ~acquired[c])
            ~> (status[c] # "UNAVAILABLE")

(***************************************************************************)
(* Construction of the clients                                             *)
(***************************************************************************)
\* StandardOpenAIClient.__init__: BaseAIClient.__init__, then the status is
\* set to AVAILABLE when default_available
ConstructInit ==
    /\ HttpIdle
    /\ SideIdle
    /\ now = 1
    /\ clients = <<>>
    /\ reg_order = <<>>
    /\ sel = NoSel
    /\ user_client_map = [k \in Keys |-> None]
    /\ group_limits = <<>>
    /\ group_id = [c \in Clients |-> IF c = "C" THEN "H" ELSE "G"]
    /\ \E default_available \in [Clients -> BOOLEAN] :
          status = [c \in Clients |->
                      IF default_available[c] THEN "AVAILABLE" ELSE "UNKNOWN"]
    /\ status_last_updated = [c \in Clients |-> 0]
    /\ error_count = [c \in Clients |-> 0]
    /\ error_sum = [c \in Clients |-> 0]
    /\ chat_count = [c \in Clients |-> 0]
    /\ in_use = [c \in Clients |-> FALSE]
    /\ acquired = [c \in Clients |-> FALSE]
    /\ last_chat = [c \in Clients |-> 0]
    /\ last_test = [c \in Clients |-> 0]
    /\ health = [c \in Clients |-> 100]
    /\ events = [c \in Clients |-> <<>>]
    /\ pc = [p \in Procs |-> "idle"]
    /\ cur = [p \in Procs |-> None]
    /\ todo = [p \in Procs |-> <<>>]
    /\ ret = [p \in Procs |-> NoRet]
    /\ final_success = [p \in Procs |-> FALSE]
    /\ api_result = [p \in Procs |-> NotCalled]
    /\ eff = [p \in Procs |-> NoEff]
    /\ test_result = [p \in Procs |-> None]
    /\ targets = <<>>

ConstructNext ==
    \/ RegisterClient("A")
    \/ GetAvailableClient("u1", FALSE, None, None)
    \/ UserChat("u1")
    \/ ChatRejected("u1")
    \/ \E o \in FewOutcomes : AdapterReturn("u1", o)
    \/ \E p \in {"u1", "admin"} : HandlerStep(p)
    \/ ChatFinally("u1")
    \/ ComplainError("u1")
    \/ \E s \in Statuses : SetClientStatus("A", s)
    \/ UpdateApiToken("A")
    \/ Tick

SpecConstruct == ConstructInit /\ [][ConstructNext]_vars

\* C17: status_last_updated is 0 exactly when the status is UNKNOWN, from
\* construction (with or without default_available) on and after every
\* _update_client_status
C17_ZeroIffUnknown ==
    \A c \in Clients : status_last_updated[c] = 0 <=> status[c] = "UNKNOWN"

(***************************************************************************)
(* The rotator                                                             *)
(***************************************************************************)
MaxItems == 3
MaxUses == 3
MaxCalls == 19

Items == {"m1", "m2", "m3"}

\* the lists set_items is called with: distinct items, in any order
ItemLists ==
    {l \in UNION {[1..n -> Items] : n \in 0..MaxItems} :
        \A i, j \in DOMAIN l : i # j => l[i] # l[j]}

\* the values of rotate_per_times set_items is called with
UsesArgs == 0..MaxUses

set_items(items, rotate_per_times) ==
    /\ _items' = items
    /\ _rotate_per_times' = Max(1, rotate_per_times)
    /\ _current_idx' = 0
    /\ _current_uses' = 0
    /\ returned' = <<>>
    /\ UNCHANGED <<httpVars, auxVars, logVars, runVars, mainVars>>

RotateLate(uses, rotate_per_times) == uses > rotate_per_times

\* if self._current_uses >= self._rotate_per_times
ShouldRotate(uses, rotate_per_times) == uses >= rotate_per_times

StayOnItem(idx, n) == idx

\* (self._current_idx + 1) % len(self._items)
AdvanceIndex(idx, n) == (idx + 1) % n

get_next ==
    /\ Len(returned) < MaxCalls
    /\ IF _items = <<>>
       THEN /\ returned' = Append(returned, None)
            /\ UNCHANGED <<_items, _rotate_per_times, _current_idx,
                           _current_uses>>
       ELSE LET rotate == ShouldRotate(_current_uses, _rotate_per_times)
                idx == IF rotate
                       THEN AdvanceIndex(_current_idx, Len(_items))
                       ELSE _current_idx
                uses == IF rotate THEN 0 ELSE _current_uses
            IN  /\ _current_idx' = idx
                /\ _current_uses' = uses + 1
                /\ returned' = Append(returned, _items[idx + 1])
                /\ UNCHANGED <<_items, _rotate_per_times>>
    /\ UNCHANGED <<httpVars, auxVars, logVars, runVars, mainVars>>

RotatorInit == HttpIdle /\ SideIdle /\ MainInit

RotatorNext ==
    \/ \E items \in ItemLists, r \in UsesArgs : set_items(items, r)
    \/ get_next

SpecRotator == RotatorInit /\ [][RotatorNext]_vars

\* the number of calls, among those recorded, that returned x
Count(calls, x) == Cardinality({n \in DOMAIN calls : calls[n] = x})

\* k * r: the calls of one full cycle
CycleLen == Len(_items) * _rotate_per_times

\* C18 as stated: after N calls of get_next on k >= 1 items, each item has
\* been returned floor(N / (k * r)) or ceil(N / (k * r)) times
C18_CountsFloorOrCeil ==
    _items # <<>> =>
        \A i \in DOMAIN _items :
            Count(returned, _items[i]) \in
                {Len(returned) \div CycleLen,
                 (Len(returned) + CycleLen - 1) \div CycleLen}

\* C18 amended: after N calls of get_next on k >= 1 items, each item has been
\* returned at least r * floor(N / (k * r)) and at most r * ceil(N / (k * r))
\* times: r times in each full cycle, and in the cycle under way the item at
\* position i as many of the calls after the first i * r as fit in r
C18_CountsByWindows ==
    _items # <<>> =>
        \A i \in DOMAIN _items :
            LET N == Len(returned)
                q == N \div CycleLen
                rest == N % CycleLen
                n == Count(returned, _items[i])
            IN  /\ n >= _rotate_per_times * q
                /\ n <= _rotate_per_times * ((N + CycleLen - 1) \div CycleLen)
                /\ n = _rotate_per_times * q
                       + Min(_rotate_per_times,
                             Max(0, rest - (i - 1) * _rotate_per_times))

C18_Witness ==
    /\ Len(_items) = 2
    /\ _rotate_per_times = 2
    /\ Len(returned) = 7
    /\ Count(returned, _items[1]) = 4
    /\ Count(returned, _items[2]) = 3

\* the calls after set_items go through the list in order, each item
\* rotate_per_times times, up to the first call of the second cycle
CycleInv ==
    _items # <<>> =>
        \A n \in DOMAIN returned :
            n <= CycleLen + 1 =>
                returned[n] =
                    _items[(((n - 1) \div _rotate_per_times) % Len(_items)) + 1]

\* get_next on an empty list returns none and leaves the rotator as it was
EmptyStep ==
    (_items = <<>> /\ Len(returned') = Len(returned) + 1) =>
        /\ returned' = Append(returned, None)
        /\ UNCHANGED <<_items, _rotate_per_times, _current_idx,
                       _current_uses>>

\* C19: after set_items(list, r) the next k * r calls of get_next return one
\* full cycle of the list, item 0 r times, then item 1 r times, ..., and call
\* k * r + 1 returns item 0 again; on an empty list get_next returns none and
\* changes no state
C19_FullCycle == [][CycleInv /\ CycleInv' /\ EmptyStep]_vars

C19_Witness ==
    /\ Len(_items) = 3
    /\ _rotate_per_times = 2
    /\ Len(returned) = 7
    /\ returned = <<_items[1], _items[1], _items[2], _items[2], _items[3],
                    _items[3], _items[1]>>

(***************************************************************************)
(* The interval log: events of one client delivered by several threads.    *)
(* A step is one statement that reads or writes self._open, or one block   *)
(* under _db_lock.                                                         *)
(***************************************************************************)
MaxRows == 4

\* get_current_model()
CurrentModel == "m1"

\* the thread that chats; the other one is the dashboard
Chatters == {"u1"}

_derive_idle_state(st) ==
    IF st = "UNAVAILABLE" THEN "UNAVAILABLE"
    ELSE IF st \in {"ERROR", "UNKNOWN"} THEN "IDLE_ERROR"
    ELSE "IDLE_OK"

\* the client the thread's call is about
Of(t) == event[t].client_name

\* _update_client_status emits, and the sink handles, inside the client's lock
HoldsClientLock(t) ==
    event[t].type = "status_change" /\ lpc[t] \notin {"idle", "changed"}

ClientLockFree(t, c) ==
    \A o \in LogThreads \ {t} : ~(HoldsClientLock(o) /\ Of(o) = c)

\* what the log's actions leave alone
logFixed == <<httpVars, auxVars, rotVars, run_id, _hb_running, reconciled, now,
              group_id, mgrVars, procVars, error_sum, acquired, last_test,
              health, events>>

\* _touch_run_heartbeat: UPDATE run_meta SET last_heartbeat_ts WHERE run_id
_touch_run_heartbeat(rm, r, ts) ==
    IF rm[r] = NoRun THEN rm ELSE [rm EXCEPT ![r].last_heartbeat_ts = ts]

\* where the thread goes on when handle_event returns
AfterHandle(t) ==
    CASE event[t].type = "chat_start"    -> "in_chat"
      [] event[t].type = "status_change" -> "changed"
      [] OTHER                           -> "idle"

\* where the thread goes on when _close_interval returns
AfterClose(t) == IF event[t].type = "chat_end" THEN "derive" ELSE "insert"

\* chat: the admission block
LogChatEnter(t, c, is_health_check) ==
    /\ lpc[t] = "idle"
    /\ ClientLockFree(t, c)
    /\ status[c] # "UNAVAILABLE"
    /\ ~in_use[c]
    /\ in_use' = [in_use EXCEPT ![c] = TRUE]
    /\ chat_count' = [chat_count EXCEPT ![c] = @ + 1]
    /\ event' = [event EXCEPT ![t] =
                    [NoEvent EXCEPT !.client_name = c,
                                    !.is_health_check = is_health_check]]
    /\ lpc' = [lpc EXCEPT ![t] = "entered"]
    /\ UNCHANGED <<client_state_log, _open, open_info, desired, status,
                   status_last_updated, error_count, last_chat, run_meta,
                   logFixed>>

\* chat: start_ts = time.time() and the chat_start event
LogChatStart(t) ==
    /\ lpc[t] = "entered"
    /\ event' = [event EXCEPT ![t] =
                    [type |-> "chat_start", ts |-> now, client_name |-> Of(t),
                     model |-> CurrentModel, success |-> FALSE,
                     new_status |-> None,
                     is_health_check |-> event[t].is_health_check]]
    /\ lpc' = [lpc EXCEPT ![t] = "handle"]
    /\ UNCHANGED <<client_state_log, _open, open_info, desired, status,
                   status_last_updated, error_count, chat_count, in_use,
                   last_chat, run_meta, logFixed>>

\* chat: the finally block
LogChatFinally(t) ==
    /\ lpc[t] = "in_chat"
    /\ ClientLockFree(t, Of(t))
    /\ in_use' = [in_use EXCEPT ![Of(t)] = FALSE]
    /\ last_chat' = [last_chat EXCEPT ![Of(t)] = now]
    /\ lpc' = [lpc EXCEPT ![t] = "left"]
    /\ UNCHANGED <<client_state_log, _open, event, open_info, desired, status,
                   status_last_updated, error_count, chat_count, run_meta,
                   logFixed>>

\* chat: end_ts = time.time() and the chat_end event
LogChatEnd(t, success) ==
    /\ lpc[t] = "left"
    /\ event' = [event EXCEPT ![t] =
                    [type |-> "chat_end", ts |-> now, client_name |-> Of(t),
                     model |-> CurrentModel, success |-> success,
                     new_status |-> None,
                     is_health_check |-> event[t].is_health_check]]
    /\ lpc' = [lpc EXCEPT ![t] = "handle"]
    /\ UNCHANGED <<client_state_log, _open, open_info, desired, status,
                   status_last_updated, error_count, chat_count, in_use,
                   last_chat, run_meta, logFixed>>

\* an _update_client_status that emits whether or not the status changes
EmitsAlways(c, s) == TRUE

\* _update_client_status: if old_status != new_status
Emits(c, s) == status[c] # s

\* set_client_status: _update_client_status and its status_change event
LogUpdateStatus(t, c, s) ==
    /\ lpc[t] = "idle"
    /\ ClientLockFree(t, c)
    /\ _update_client_status(c, s)
    /\ event' = [event EXCEPT ![t] =
                    [type |-> IF Emits(c, s) THEN "status_change" ELSE None,
                     ts |-> now, client_name |-> c, model |-> None,
                     success |-> FALSE, new_status |-> s,
                     is_health_check |-> FALSE]]
    /\ lpc' = [lpc EXCEPT ![t] = IF Emits(c, s) THEN "handle" ELSE "changed"]
    /\ UNCHANGED <<client_state_log, _open, open_info, desired, chat_count,
                   in_use, last_chat, run_meta, logFixed>>

\* set_client_status: _reset_error_count when the status is AVAILABLE
LogStatusDone(t) ==
    /\ lpc[t] = "changed"
    /\ ClientLockFree(t, Of(t))
    /\ IF event[t].new_status = "AVAILABLE"
       THEN _reset_error_count(Of(t))
       ELSE UNCHANGED <<error_count, error_sum, status, status_last_updated>>
    /\ lpc' = [lpc EXCEPT ![t] = "idle"]
    /\ UNCHANGED <<client_state_log, _open, event, open_info, desired,
                   chat_count, in_use, last_chat, httpVars, auxVars, rotVars, runVars,
                   now, group_id, mgrVars, procVars, acquired, last_test,
                   health, events>>

\* handle_event: the heartbeat and the dispatch on the event's type
LogHandleEvent(t) ==
    /\ lpc[t] = "handle"
    /\ CASE event[t].type = "chat_start" ->
              /\ desired' = [desired EXCEPT ![t] =
                                [state |-> "RUNNING", model |-> event[t].model,
                                 is_health_check |->
                                     event[t].is_health_check]]
              /\ lpc' = [lpc EXCEPT ![t] = "ensure"]
         [] event[t].type = "chat_end" ->
              /\ lpc' = [lpc EXCEPT ![t] = "close"]
              /\ UNCHANGED desired
         [] OTHER ->
              IF _open[Of(t)].state = "RUNNING"
              THEN /\ lpc' = [lpc EXCEPT ![t] = AfterHandle(t)]
                   /\ UNCHANGED desired
              ELSE /\ desired' = [desired EXCEPT ![t] =
                          [state |-> _derive_idle_state(status[Of(t)]),
                           model |-> None, is_health_check |-> FALSE]]
                   /\ lpc' = [lpc EXCEPT ![t] = "ensure"]
    /\ run_meta' = _touch_run_heartbeat(run_meta, run_id, event[t].ts)
    /\ UNCHANGED <<client_state_log, _open, event, open_info, status,
                   status_last_updated, error_count, chat_count, in_use,
                   last_chat, logFixed>>

\* _ensure_state: open_info = self._open.get(client_name)
LogEnsureState(t) ==
    /\ lpc[t] = "ensure"
    /\ LET oi == _open[Of(t)]
       IN  lpc' = [lpc EXCEPT ![t] =
                     IF /\ oi # NoOpen
                        /\ oi.state = desired[t].state
                        /\ oi.model = desired[t].model
                     THEN AfterHandle(t)
                     ELSE IF oi # NoOpen THEN "close" ELSE "insert"]
    /\ UNCHANGED <<client_state_log, _open, event, open_info, desired, status,
                   status_last_updated, error_count, chat_count, in_use,
                   last_chat, run_meta, logFixed>>

\* _close_interval: open_info = self._open.get(client_name)
LogCloseInterval(t) ==
    /\ lpc[t] = "close"
    /\ IF _open[Of(t)] = NoOpen
       THEN /\ lpc' = [lpc EXCEPT ![t] = AfterClose(t)]
            /\ UNCHANGED open_info
       ELSE /\ open_info' = [open_info EXCEPT ![t] = _open[Of(t)]]
            /\ lpc' = [lpc EXCEPT ![t] = "update"]
    /\ UNCHANGED <<client_state_log, _open, event, desired, status,
                   status_last_updated, error_count, chat_count, in_use,
                   last_chat, run_meta, logFixed>>

\* _close_interval: UPDATE client_state_log SET ts_end, state WHERE id
LogUpdateRow(t) ==
    /\ lpc[t] = "update"
    /\ client_state_log' =
          [client_state_log EXCEPT ![open_info[t].row_id] =
              [@ EXCEPT !.ts_end = event[t].ts,
                        !.state = IF event[t].type = "chat_end"
                                  THEN IF event[t].success THEN "RUN_SUCCESS"
                                       ELSE "RUN_FAIL"
                                  ELSE open_info[t].state]]
    /\ lpc' = [lpc EXCEPT ![t] = "pop"]
    /\ UNCHANGED <<_open, event, open_info, desired, status,
                   status_last_updated, error_count, chat_count, in_use,
                   last_chat, run_meta, logFixed>>

\* _close_interval: self._open.pop(client_name, None)
LogPop(t) ==
    /\ lpc[t] = "pop"
    /\ _open' = [_open EXCEPT ![Of(t)] = NoOpen]
    /\ lpc' = [lpc EXCEPT ![t] = AfterClose(t)]
    /\ UNCHANGED <<client_state_log, event, open_info, desired, status,
                   status_last_updated, error_count, chat_count, in_use,
                   last_chat, run_meta, logFixed>>

\* handle_event, chat_end: idle_state = self._derive_idle_state(client_obj)
LogDerive(t) ==
    /\ lpc[t] = "derive"
    /\ ClientLockFree(t, Of(t))
    /\ desired' = [desired EXCEPT ![t] =
                      [state |-> _derive_idle_state(status[Of(t)]),
                       model |-> event[t].model,
                       is_health_check |-> event[t].is_health_check]]
    /\ lpc' = [lpc EXCEPT ![t] = "insert"]
    /\ UNCHANGED <<client_state_log, _open, event, open_info, status,
                   status_last_updated, error_count, chat_count, in_use,
                   last_chat, run_meta, logFixed>>

\* _open_interval: INSERT INTO client_state_log, row_id = cur.lastrowid
LogInsert(t) ==
    /\ lpc[t] = "insert"
    /\ Len(client_state_log) < MaxRows
    /\ client_state_log' =
          Append(client_state_log,
                 [run_id |-> run_id, client_name |-> Of(t),
                  state |-> desired[t].state, model_name |-> desired[t].model,
                  ts_start |-> event[t].ts, ts_end |-> Null,
                  is_health_check |-> desired[t].is_health_check])
    /\ open_info' = [open_info EXCEPT ![t] =
                        [row_id |-> Len(client_state_log) + 1,
                         state |-> desired[t].state,
                         model |-> desired[t].model]]
    /\ lpc' = [lpc EXCEPT ![t] = "setopen"]
    /\ UNCHANGED <<_open, event, desired, status, status_last_updated,
                   error_count, chat_count, in_use, last_chat, run_meta,
                   logFixed>>

\* _open_interval: self._open[client_name] = {row_id, state, model}
LogSetOpen(t) ==
    /\ lpc[t] = "setopen"
    /\ _open' = [_open EXCEPT ![Of(t)] = open_info[t]]
    /\ lpc' = [lpc EXCEPT ![t] = AfterHandle(t)]
    /\ UNCHANGED <<client_state_log, event, open_info, desired, status,
                   status_last_updated, error_count, chat_count, in_use,
                   last_chat, run_meta, logFixed>>

\* attach_client has opened the baseline interval of client A
LogInit ==
    /\ HttpIdle
    /\ RotatorNew
    /\ AuxNew
    /\ MainInit
    /\ client_state_log =
          <<[run_id |-> "r1", client_name |-> "A",
             state |-> _derive_idle_state("UNKNOWN"),
             model_name |-> CurrentModel, ts_start |-> 1, ts_end |-> Null,
             is_health_check |-> FALSE]>>
    /\ _open = [c \in Clients |->
                  IF c = "A"
                  THEN [row_id |-> 1, state |-> _derive_idle_state("UNKNOWN"),
                        model |-> CurrentModel]
                  ELSE NoOpen]
    /\ lpc = [t \in LogThreads |-> "idle"]
    /\ event = [t \in LogThreads |-> NoEvent]
    /\ open_info = [t \in LogThreads |-> NoOpen]
    /\ desired = [t \in LogThreads |-> NoInterval]
    /\ run_id = "r1"
    /\ run_meta = _register_run_meta([r \in RunIds |-> NoRun], "r1", 1)
    /\ _hb_running = FALSE
    /\ reconciled = {}

LogNext ==
    \/ \E t \in Chatters : LogChatEnter(t, "A", FALSE)
    \/ \E t \in Chatters : LogChatStart(t)
    \/ \E t \in Chatters : LogChatFinally(t)
    \/ \E t \in Chatters, success \in BOOLEAN : LogChatEnd(t, success)
    \/ \E s \in Statuses : LogUpdateStatus("admin", "A", s)
    \/ LogStatusDone("admin")
    \/ \E t \in LogThreads : LogHandleEvent(t)
    \/ \E t \in LogThreads : LogEnsureState(t)
    \/ \E t \in LogThreads : LogCloseInterval(t)
    \/ \E t \in LogThreads : LogUpdateRow(t)
    \/ \E t \in LogThreads : LogPop(t)
    \/ \E t \in Chatters : LogDerive(t)
    \/ \E t \in LogThreads : LogInsert(t)
    \/ \E t \in LogThreads : LogSetOpen(t)
    \/ Tick

SpecLog == LogInit /\ [][LogNext]_vars

\* the intervals of client c, by row id
RowsOf(c) ==
    {i \in DOMAIN client_state_log : client_state_log[i].client_name = c}

AtMostOneOpen(c) ==
    Cardinality({i \in RowsOf(c) : client_state_log[i].ts_end = Null}) <= 1

ClosedForward(c) ==
    \A i \in RowsOf(c) :
        client_state_log[i].ts_end # Null =>
            client_state_log[i].ts_start <= client_state_log[i].ts_end

\* of two intervals of c, one is closed and ends no later than the other
\* starts
NoOverlap(c) ==
    \A i, j \in RowsOf(c) :
        i # j =>
            \/ /\ client_state_log[i].ts_end # Null
               /\ client_state_log[i].ts_end <= client_state_log[j].ts_start
            \/ /\ client_state_log[j].ts_end # Null
               /\ client_state_log[j].ts_end <= client_state_log[i].ts_start

\* C20: in the log of a run, each client has at most one interval with null
\* ts_end, every closed interval has ts_start <= ts_end, and no two intervals
\* overlap, when chat_start, chat_end and status_change events of the client
\* are delivered by different threads in any interleaving
C20_IntervalsDisjoint ==
    \A c \in Clients : AtMostOneOpen(c) /\ ClosedForward(c) /\ NoOverlap(c)

(***************************************************************************)
(* Runs: the logger over successive launches of the process.  The process  *)
(* of a run can end at any point, with or without stop(); the next launch  *)
(* constructs a logger with a new run id on the same database.             *)
(***************************************************************************)
heartbeat_grace_sec == 1
MaxRunClock == 3
MaxRunRows == 4

\* the run ids in the order the launches take them
RunOrder == <<"r1", "r2", "r3">>

Registered_runs == {r \in RunIds : run_meta[r] # NoRun}

\* a query that fetches one row where the code fetches all
FirstStaleRun(rm, t) ==
    LET stale == {r \in RunIds :
                     /\ rm[r] # NoRun
                     /\ rm[r].end_ts = Null
                     /\ rm[r].last_heartbeat_ts # Null
                     /\ rm[r].last_heartbeat_ts < t - heartbeat_grace_sec}
    IN  IF stale = {} THEN {}
        ELSE {CHOOSE r \in stale :
                 \A q \in stale : rm[r].start_ts <= rm[q].start_ts}

\* SELECT run_id, last_heartbeat_ts FROM run_meta WHERE end_ts IS NULL AND
\* last_heartbeat_ts IS NOT NULL AND last_heartbeat_ts < now - grace
StaleRuns(rm, t) ==
    {r \in RunIds :
        /\ rm[r] # NoRun
        /\ rm[r].end_ts = Null
        /\ rm[r].last_heartbeat_ts # Null
        /\ rm[r].last_heartbeat_ts < t - heartbeat_grace_sec}

\* an UPDATE of the intervals that leaves out "AND ts_start <= ?"
IsOpen(row, last_hb) == row.ts_end = Null

\* WHERE ts_end IS NULL AND ts_start <= last_hb
Dangling(row, last_hb) == row.ts_end = Null /\ row.ts_start <= last_hb

\* UPDATE run_meta SET end_ts = last_hb, for each stale run
ReconciledRuns(rm, t) ==
    [r \in RunIds |->
        IF r \in StaleRuns(rm, t)
        THEN [rm[r] EXCEPT !.end_ts = rm[r].last_heartbeat_ts]
        ELSE rm[r]]

\* UPDATE client_state_log SET ts_end = last_hb, for each stale run
ReconciledLog(log, rm, t) ==
    [i \in DOMAIN log |->
        IF /\ log[i].run_id \in StaleRuns(rm, t)
           /\ Dangling(log[i], rm[log[i].run_id].last_heartbeat_ts)
        THEN [log[i] EXCEPT !.ts_end = rm[log[i].run_id].last_heartbeat_ts]
        ELSE log[i]]

\* reconcile_stale_runs on the table run_meta as rm
reconcile_stale_runs(rm) ==
    /\ run_meta' = ReconciledRuns(rm, now)
    /\ client_state_log' = ReconciledLog(client_state_log, rm, now)
    /\ reconciled' = reconciled \cup StaleRuns(rm, now)

\* the database and self._open of the running logger
Store == [log |-> client_state_log, open |-> _open]

\* _close_interval, run to its end
_close_interval(db, c, ts, final_state) ==
    IF db.open[c] = NoOpen THEN db
    ELSE [log |-> [db.log EXCEPT ![db.open[c].row_id] =
                      [@ EXCEPT !.ts_end = ts,
                                !.state = IF final_state = None
                                          THEN db.open[c].state
                                          ELSE final_state]],
          open |-> [db.open EXCEPT ![c] = NoOpen]]

\* _open_interval, run to its end
_open_interval(db, c, state, model, ts, is_health_check) ==
    [log |-> Append(db.log,
                    [run_id |-> run_id, client_name |-> c, state |-> state,
                     model_name |-> model, ts_start |-> ts, ts_end |-> Null,
                     is_health_check |-> is_health_check]),
     open |-> [db.open EXCEPT ![c] =
                  [row_id |-> Len(db.log) + 1, state |-> state,
                   model |-> model]]]

\* _ensure_state, run to its end
_ensure_state(db, c, state, model, ts, is_health_check) ==
    IF /\ db.open[c] # NoOpen
       /\ db.open[c].state = state
       /\ db.open[c].model = model
    THEN db
    ELSE _open_interval(_close_interval(db, c, ts, None), c, state, model, ts,
                        is_health_check)

\* handle_event after the heartbeat, with no other thread in the logger; st
\* is the status of the client the event carries
handle_event(db, ev, st) ==
    CASE ev.type = "chat_start" ->
           _ensure_state(db, ev.client_name, "RUNNING", ev.model, ev.ts,
                         ev.is_health_check)
      [] ev.type = "chat_end" ->
           _open_interval(_close_interval(db, ev.client_name, ev.ts,
                                          IF ev.success THEN "RUN_SUCCESS"
                                          ELSE "RUN_FAIL"),
                          ev.client_name, _derive_idle_state(st), ev.model,
                          ev.ts, ev.is_health_check)
      [] ev.type = "status_change" ->
           IF db.open[ev.client_name].state = "RUNNING" THEN db
           ELSE _ensure_state(db, ev.client_name, _derive_idle_state(st),
                              None, ev.ts, FALSE)
      [] OTHER -> db

\* the event reaches the sink of the running logger
Sink(ev, st) ==
    LET db == handle_event(Store, ev, st)
    IN  /\ Len(db.log) <= MaxRunRows
        /\ client_state_log' = db.log
        /\ _open' = db.open
        /\ run_meta' = _touch_run_heartbeat(run_meta, run_id, ev.ts)

\* what the actions of the logger's life leave alone
runFixed == <<httpVars, auxVars, rotVars, group_id, mgrVars, procVars, error_sum,
              acquired, last_test, health, events>>

clientNow == <<status, status_last_updated, error_count, chat_count, in_use,
               last_chat>>

\* ClientStateSQLiteLogger.__init__ in a new process
LoggerConstruct(r) ==
    /\ run_id = None
    /\ Cardinality(Registered_runs) < Len(RunOrder)
    /\ r = RunOrder[Cardinality(Registered_runs) + 1]
    /\ run_id' = r
    /\ reconcile_stale_runs(_register_run_meta(run_meta, r, now))
    /\ UNCHANGED <<_open, lpc, event, open_info, desired, _hb_running, now,
                   clientNow, runFixed>>

\* query_timeline: reconcile_stale_runs before the query
QueryTimeline ==
    /\ run_id # None
    /\ reconcile_stale_runs(run_meta)
    /\ UNCHANGED <<_open, lpc, event, open_info, desired, run_id, _hb_running,
                   now, clientNow, runFixed>>

\* start
LoggerStart ==
    /\ run_id # None
    /\ ~_hb_running
    /\ _hb_running' = TRUE
    /\ UNCHANGED <<logVars, run_meta, run_id, reconciled, now, clientNow,
                   runFixed>>

\* _heartbeat_loop: one turn
Heartbeat ==
    /\ run_id # None
    /\ _hb_running
    /\ run_meta' = _touch_run_heartbeat(run_meta, run_id, now)
    /\ UNCHANGED <<logVars, run_id, _hb_running, reconciled, now, clientNow,
                   runFixed>>

\* the clients whose events reach the logger of this process
Attached(c) ==
    /\ run_id # None
    /\ \E i \in DOMAIN client_state_log :
          /\ client_state_log[i].run_id = run_id
          /\ client_state_log[i].client_name = c

\* attach_client, when the client is registered
AttachClient(c) ==
    /\ run_id # None
    /\ ~Attached(c)
    /\ LET db == _open_interval(_close_interval(Store, c, now, None), c,
                                _derive_idle_state(status[c]), CurrentModel,
                                now, FALSE)
       IN  /\ Len(db.log) <= MaxRunRows
           /\ client_state_log' = db.log
           /\ _open' = db.open
    /\ UNCHANGED <<lpc, event, open_info, desired, runVars, now, clientNow,
                   runFixed>>

RECURSIVE CloseAll(_, _, _)
\* stop: _close_interval for every name in self._open
CloseAll(db, names, ts) ==
    IF names = {} THEN db
    ELSE LET c == CHOOSE d \in names : TRUE
         IN  CloseAll(_close_interval(db, c, ts, None), names \ {c}, ts)

\* stop
LoggerStop ==
    /\ run_id # None
    /\ LET db == CloseAll(Store, Clients, now)
       IN  /\ client_state_log' = db.log
           /\ _open' = db.open
    /\ run_meta' = IF run_meta[run_id].end_ts = Null
                   THEN [run_meta EXCEPT ![run_id].end_ts = now]
                   ELSE run_meta
    /\ _hb_running' = FALSE
    /\ UNCHANGED <<lpc, event, open_info, desired, run_id, reconciled, now,
                   clientNow, runFixed>>

\* handle_event for a status_change event of c, whose status is s by then
SinkStatusChange(c, s) ==
    /\ Attached(c)
    /\ Sink([NoEvent EXCEPT !.type = "status_change", !.ts = now,
                            !.client_name = c, !.new_status = s], s)
    /\ UNCHANGED <<lpc, event, open_info, desired, run_id, _hb_running,
                   reconciled, now, clientNow, runFixed>>

\* handle_event for the chat_start event of thread t's chat on c
SinkChatStart(t, c, is_health_check) ==
    /\ Attached(c)
    /\ lpc[t] = "idle"
    /\ lpc' = [lpc EXCEPT ![t] = "in_chat"]
    /\ Sink([NoEvent EXCEPT !.type = "chat_start", !.ts = now,
                            !.client_name = c, !.model = CurrentModel,
                            !.is_health_check = is_health_check], status[c])
    /\ UNCHANGED <<event, open_info, desired, run_id, _hb_running, reconciled,
                   now, clientNow, runFixed>>

\* handle_event for the chat_end event of the same chat
SinkChatEnd(t, c, success) ==
    /\ Attached(c)
    /\ lpc[t] = "in_chat"
    /\ lpc' = [lpc EXCEPT ![t] = "idle"]
    /\ Sink([NoEvent EXCEPT !.type = "chat_end", !.ts = now,
                            !.client_name = c, !.model = CurrentModel,
                            !.success = success], status[c])
    /\ UNCHANGED <<event, open_info, desired, run_id, _hb_running, reconciled,
                   now, clientNow, runFixed>>

\* the process ends: its logger and threads are gone, the database stays
ProcessEnds ==
    /\ run_id # None
    /\ run_id' = None
    /\ _hb_running' = FALSE
    /\ _open' = [c \in Clients |-> NoOpen]
    /\ lpc' = [t \in LogThreads |-> "idle"]
    /\ event' = [t \in LogThreads |-> NoEvent]
    /\ open_info' = [t \in LogThreads |-> NoOpen]
    /\ desired' = [t \in LogThreads |-> NoInterval]
    /\ UNCHANGED <<client_state_log, run_meta, reconciled, now, clientNow,
                   runFixed>>

RunTick ==
    /\ now < MaxRunClock
    /\ now' = now + 1
    /\ UNCHANGED <<logVars, runVars, clientNow, runFixed>>

RunsInit == HttpIdle /\ SideIdle /\ MainInit

RunsNext ==
    \/ \E r \in RunIds : LoggerConstruct(r)
    \/ QueryTimeline
    \/ LoggerStart
    \/ Heartbeat
    \/ AttachClient("A")
    \/ LoggerStop
    \/ ProcessEnds
    \/ RunTick
    \/ SinkStatusChange("A", "AVAILABLE")
    \/ SinkChatStart("u1", "A", FALSE)
    \/ \E success \in BOOLEAN : SinkChatEnd("u1", "A", success)

SpecRuns == RunsInit /\ [][RunsNext]_vars

\* C21: the reconciliation of a start-up changes exactly the runs that have
\* no end_ts and a last_heartbeat_ts before now - heartbeat_grace_sec: such a
\* run gets end_ts = last_heartbeat_ts, and each of its intervals with no
\* ts_end and ts_start <= last_heartbeat_ts gets ts_end = last_heartbeat_ts;
\* every other run and every other interval stays as it was
C21_StartUp ==
    (run_id = None /\ run_id' # None) =>
        /\ \A r \in RunIds \ {run_id'} :
              run_meta'[r] =
                 IF /\ run_meta[r] # NoRun
                    /\ run_meta[r].end_ts = Null
                    /\ run_meta[r].last_heartbeat_ts
                          < now - heartbeat_grace_sec
                 THEN [run_meta[r] EXCEPT
                          !.end_ts = run_meta[r].last_heartbeat_ts]
                 ELSE run_meta[r]
        /\ Len(client_state_log') = Len(client_state_log)
        /\ \A i \in DOMAIN client_state_log :
              LET row == client_state_log[i]
                  run == run_meta[row.run_id]
              IN  client_state_log'[i] =
                     IF /\ run.end_ts = Null
                        /\ run.last_heartbeat_ts < now - heartbeat_grace_sec
                        /\ row.ts_end = Null
                        /\ row.ts_start <= run.last_heartbeat_ts
                     THEN [row EXCEPT !.ts_end = run.last_heartbeat_ts]
                     ELSE row

C21_ReconcileExact == [][C21_StartUp]_vars

\* a start-up has ended a crashed run and closed an interval of it, and left
\* alone a run that stop had ended
C21_Witness ==
    /\ run_id # None
    /\ \E r \in reconciled \ {run_id} :
          /\ run_meta[r].end_ts = run_meta[r].last_heartbeat_ts
          /\ \E i \in DOMAIN client_state_log :
                /\ client_state_log[i].run_id = r
                /\ client_state_log[i].ts_end = run_meta[r].end_ts
                /\ client_state_log[i].state = "RUNNING"
    /\ \E q \in RunIds \ (reconciled \cup {run_id}) :
          /\ run_meta[q] # NoRun
          /\ run_meta[q].end_ts # Null

\* C22: every interval of a run that is over and whose end_ts reconcile has
\* stamped is closed, and ends no later than the run's end_ts
C22_CrashedRunClosed ==
    \A r \in reconciled \ {run_id} :
        \A i \in DOMAIN client_state_log :
            client_state_log[i].run_id = r =>
                /\ client_state_log[i].ts_end # Null
                /\ client_state_log[i].ts_end <= run_meta[r].end_ts

\* C23: reconcile_stale_runs called again at the same time on the database
\* it has just left changes no run and no interval
C23_ReconcileIdempotent ==
    LET rm == ReconciledRuns(run_meta, now)
        log == ReconciledLog(client_state_log, run_meta, now)
    IN  /\ ReconciledRuns(rm, now) = rm
        /\ ReconciledLog(log, rm, now) = log
        /\ StaleRuns(rm, now) = {}

\* the first call has work to do: a stale run with an interval to close
C23_Witness ==
    \E r \in StaleRuns(run_meta, now) :
        \E i \in DOMAIN client_state_log :
            /\ client_state_log[i].run_id = r
            /\ Dangling(client_state_log[i], run_meta[r].last_heartbeat_ts)

\* C24: _update_client_status emits a status_change event exactly when the
\* new status differs from the old one, so a second call with the same
\* status emits none
C24_UpdateStep ==
    \A t \in LogThreads :
        (lpc[t] = "idle" /\ lpc'[t] # "idle" /\ event'[t].new_status # None) =>
            LET c == event'[t].client_name
            IN  /\ status'[c] = event'[t].new_status
                /\ (event'[t].type = "status_change") <=>
                      (status[c] # status'[c])
                /\ (lpc'[t] = "handle") <=> (status[c] # status'[c])
                /\ (lpc'[t] = "changed") <=> (status[c] = status'[c])

C24_EmitOnChangeOnly == [][C24_UpdateStep]_vars

\* the second of two calls with AVAILABLE has returned with no event; the
\* log holds the one interval that the first call's event opened
C24_Witness ==
    /\ lpc["admin"] = "changed"
    /\ event["admin"].new_status = "AVAILABLE"
    /\ event["admin"].type = None
    /\ status["A"] = "AVAILABLE"
    /\ Cardinality({i \in DOMAIN client_state_log :
                       client_state_log[i].state = "IDLE_OK"}) = 1

\* rows i < j are consecutive intervals of one client in one run
Consecutive(i, j) ==
    /\ i < j
    /\ client_state_log[i].client_name = client_state_log[j].client_name
    /\ client_state_log[i].run_id = client_state_log[j].run_id
    /\ \A k \in DOMAIN client_state_log :
          (i < k /\ k < j) =>
              \/ client_state_log[k].client_name
                    # client_state_log[i].client_name
              \/ client_state_log[k].run_id # client_state_log[i].run_id

\* C25: two consecutive intervals of one client in a run differ in state or
\* in model, unless the earlier one is RUN_SUCCESS or RUN_FAIL
C25_NoSplit ==
    \A i, j \in DOMAIN client_state_log :
        Consecutive(i, j) =>
            \/ client_state_log[i].state \in {"RUN_SUCCESS", "RUN_FAIL"}
            \/ client_state_log[i].state # client_state_log[j].state
            \/ client_state_log[i].model_name # client_state_log[j].model_name

\* C26: an open RUNNING interval is changed only by the handler of a
\* chat_end event, which closes it at the event's ts as RUN_SUCCESS or
\* RUN_FAIL, and the interval that this handler then opens is an idle one
\* that starts at the same ts
C26_RunningStep ==
    /\ \A i \in DOMAIN client_state_log :
          (/\ client_state_log[i].state = "RUNNING"
           /\ client_state_log[i].ts_end = Null
           /\ client_state_log'[i] # client_state_log[i]) =>
              \E t \in LogThreads :
                  /\ lpc[t] = "update"
                  /\ event[t].type = "chat_end"
                  /\ client_state_log'[i].state
                        = (IF event[t].success THEN "RUN_SUCCESS"
                           ELSE "RUN_FAIL")
                  /\ client_state_log'[i].ts_end = event[t].ts
    /\ \A t \in LogThreads :
          (/\ event[t].type = "chat_end"
           /\ lpc[t] = "insert"
           /\ lpc'[t] # "insert") =>
              LET row == client_state_log'[Len(client_state_log')]
              IN  /\ row.ts_start = event[t].ts
                  /\ row.state \in {"IDLE_OK", "IDLE_ERROR", "UNAVAILABLE"}

C26_RunningUntilChatEnd == [][C26_RunningStep]_vars

\* C27: when chat is about to return, the success flag of its chat_end event
\* (final_success) is true exactly when the value it returns is a success
\* result, one with no 'error' key
C27_SuccessFlagIsOutcome ==
    \A p \in Procs :
        Handled(p) => (final_success[p] <=> IsSuccess(ret[p]))

\* the health check of the checker thread is between its _acquire and the
\* end of its finally
CheckRunning ==
    pc["checker"] \in {"hc_acquired", "hc_test", "calling", "rejected",
                       "handling", "t_validate", "t_handling", "hc_end"}

\* the check has registered its test user and not yet cleared it
TestUserSet == CheckRunning /\ pc["checker"] # "hc_acquired"

\* C28: a health check holds the lease of its client from _acquire to the
\* end of its finally, the test user "[System Check] <name>" is in
\* user_client_map exactly while the check runs, and the step that ends the
\* check removes that entry and leaves acquired false
C28_CheckStep ==
    /\ CheckRunning => acquired[cur["checker"]]
    /\ \A c \in Clients :
          user_client_map[_generate_test_user_name(c)] = c <=>
              (TestUserSet /\ cur["checker"] = c)
    /\ (CheckRunning /\ ~CheckRunning') =>
          /\ user_client_map'[_generate_test_user_name(cur["checker"])] = None
          /\ ~acquired'[cur["checker"]]

C28_CheckHoldsLease == [][C28_CheckStep]_vars

(***************************************************************************)
(* The self-test alone: manual checks of client A, one after another, the  *)
(* test chat ending in each of its ways.  No other thread touches the      *)
(* client, so the test chat is never rejected (_acquire refuses a client   *)
(* that is UNAVAILABLE).                                                   *)
(***************************************************************************)
SelfTestNext ==
    \/ TriggerManualCheck("A")
    \/ CheckAcquire
    \/ CheckDone
    \/ _set_test_user("checker")
    \/ TestChat("checker")
    \/ \E o \in FewOutcomes : AdapterReturn("checker", o)
    \/ HandlerStep("checker")
    \/ ChatFinally("checker")
    \/ TestValidate("checker")
    \/ TestReturn("checker")
    \/ CheckEnd("checker")

SpecSelfTest == MonitorInit /\ [][SelfTestNext]_vars

\* C29: _test_and_update_status returns true exactly when its chat returned
\* a success result whose content holds "OK", and then the client is
\* AVAILABLE with error_count 0; when the chat succeeded and the validation
\* fails, error_count and error_sum grow by 1, the status becomes ERROR and
\* it returns false; when the chat returned an error it returns false and
\* changes no status; last_test is stamped in every case
C29_TestStep ==
    LET p == "checker"
        c == cur[p]
        passed == ret[p].error = None /\ ret[p].data = "ok_content"
    IN  /\ (pc[p] = "t_validate" /\ pc'[p] = "t_handling") =>
              /\ test_result'[p] = (IF passed THEN "True" ELSE "False")
              /\ ret[p].error # None => todo'[p] = <<>>
              /\ (ret[p].error = None /\ ~passed) => Len(todo'[p]) = 2
              /\ ret[p].error = None => error_count[c] = 0
           \* complain_error after a failed validation
        /\ (pc[p] = "t_handling" /\ test_result[p] = "False"
               /\ Len(todo[p]) = 2 /\ todo'[p] # todo[p]) =>
              /\ error_count'[c] = error_count[c] + 1
              /\ error_sum'[c] = error_sum[c] + 1
        /\ (pc[p] = "t_handling" /\ test_result[p] = "False"
               /\ Len(todo[p]) = 1 /\ todo'[p] # todo[p]) =>
              status'[c] = "ERROR"
           \* the return
        /\ (pc[p] = "t_handling" /\ pc'[p] = "hc_end") =>
              /\ last_test'[c] = now
              /\ test_result[p] = "True" =>
                    status'[c] = "AVAILABLE" /\ error_count'[c] = 0
              /\ status'[c] = status[c]
              /\ error_count'[c] = error_count[c]

C29_TestOutcome == [][C29_TestStep]_vars

\* a self-test has failed its validation: the chat succeeded with a content
\* that is not the expected one, the error is counted and the status is ERROR
C29_Witness ==
    /\ pc["checker"] = "hc_end"
    /\ test_result["checker"] = "False"
    /\ status[cur["checker"]] = "ERROR"
    /\ error_count[cur["checker"]] = 1
    /\ last_test[cur["checker"]] = now
    /\ events[cur["checker"]][Len(events[cur["checker"]])] = "chat_end"


(***************************************************************************)
(* The chat of a health check, from _test_and_update_status to the         *)
(* adapter and to the interval log.  The thread "admin" is the one that    *)
(* runs the check (the caller of trigger_manual_check, or the monitor);    *)
(* "u1" is a user whose chats share the client.                            *)
(***************************************************************************)

\* chat, line 117: the default of the parameter is_health_check
chat_is_health_check == FALSE

\* _test_and_update_status, lines 370-373: the test chat is called with
\* messages and max_tokens only, so chat takes its default
test_is_health_check == chat_is_health_check

\* _attempt_sync_post: the timeouts (connect, read) and the number of tries
\* of the request
_attempt_sync_post(is_health_check) ==
    IF is_health_check
    THEN [timeout |-> <<5, 5>>, max_tries |-> 1]
    ELSE [timeout |-> <<5, 5 * 60>>, max_tries |-> 3]

\* chat of a user on c: the chat_start event; the client runs one chat at a
\* time
UserChatStart(t, c) ==
    /\ \A u \in LogThreads : lpc[u] = "idle"
    /\ SinkChatStart(t, c, chat_is_health_check)

\* the test chat of a health check on c: the chat_start event
TestChatStart(t, c) ==
    /\ \A u \in LogThreads : lpc[u] = "idle"
    /\ SinkChatStart(t, c, test_is_health_check)

CheckLogNext ==
    \/ LoggerStart
    \/ AttachClient("A")
    \/ RunTick
    \/ \E s \in {"AVAILABLE", "ERROR"} : SinkStatusChange("A", s)
    \/ UserChatStart("u1", "A")
    \/ TestChatStart("admin", "A")
    \/ \E t \in LogThreads, success \in BOOLEAN : SinkChatEnd(t, "A", success)

SpecCheckLog == RunsInit /\ [][CheckLogNext]_vars

\* C30: the chat of a health check is a health-check call: the interval
\* RUNNING that its chat_start event opens has is_health_check set, and the
\* HTTP core, given the same flag, makes one try with the timeouts (5, 5)
C30_TestChatStep ==
    (lpc["admin"] = "idle" /\ lpc'["admin"] = "in_chat") =>
        LET row == client_state_log'[_open'["A"].row_id]
        IN  /\ _open'["A"].state = "RUNNING"
            /\ row.state = "RUNNING"
            /\ row.is_health_check
            /\ _attempt_sync_post(row.is_health_check) =
                  [timeout |-> <<5, 5>>, max_tries |-> 1]

C30_HealthCheckCall == [][C30_TestChatStep]_vars

(***************************************************************************)
(* The retry wrapper of the synchronous POST (_attempt_sync_post): each    *)
(* attempt of _attempt_sync_post_core ends in a response or an exception.  *)
(***************************************************************************)

\* the classes of requests.exceptions the module imports, each with the
\* classes it derives from
Bases(e) ==
    CASE e = "ConnectTimeout" ->
            {"ConnectTimeout", "ConnectionError", "Timeout", "RequestException"}
      [] e = "ReadTimeout" -> {"ReadTimeout", "Timeout", "RequestException"}
      [] e = "ConnectionError" -> {"ConnectionError", "RequestException"}
      [] e = "ProxyError" ->
            {"ProxyError", "ConnectionError", "RequestException"}
      [] e = "SSLError" -> {"SSLError", "ConnectionError", "RequestException"}
      [] e = "ChunkedEncodingError" ->
            {"ChunkedEncodingError", "RequestException"}
      [] OTHER -> {e, "Exception"}

\* isinstance(e, classes)
isinstance(e, classes) == Bases(e) \cap classes # {}

\* a giveup predicate that stops on a read timeout only
GiveupOnReadTimeout(e) == isinstance(e, {"ReadTimeout"})

\* _should_giveup
_should_giveup(e) ==
    IF isinstance(e, {"ReadTimeout"}) THEN TRUE
    ELSE IF isinstance(e, {"SSLError"}) THEN TRUE
    ELSE IF isinstance(e, {"ConnectTimeout", "ConnectionError", "ProxyError"})
    THEN FALSE
    ELSE TRUE

\* backoff.on_exception(..., max_tries=3, ...)
max_tries == 3

\* what one attempt of _attempt_sync_post_core can end in
PostExceptions == {"ConnectTimeout", "ReadTimeout", "ConnectionError",
                   "ProxyError", "SSLError", "ChunkedEncodingError",
                   "RuntimeError"}
PostOutcomes ==
    {[kind |-> "response", status |-> st, body |-> "ok_content",
      exc |-> None] : st \in {200, 429, 503}}
    \cup {[kind |-> "exception", status |-> 0, body |-> None, exc |-> e] :
             e \in PostExceptions}

\* a call: the flag, what each attempt would end in, and whether max_time
\* (30 s) has elapsed when the attempt has failed
RetryInputs ==
    [is_health_check : BOOLEAN,
     plan : [1..max_tries -> [transport : PostOutcomes, late : BOOLEAN]],
     reset_fails : {FALSE}]

\* backoff's decision after attempt n has ended in transport: the wrapper
\* sleeps and tries again
Retries(transport, n, late) ==
    /\ transport.kind = "exception"
    /\ isinstance(transport.exc, {"RequestException"})
    /\ ~_should_giveup(transport.exc)
    /\ n # max_tries
    /\ ~late

RetryInit ==
    /\ httpPc = "ready"
    /\ httpIn \in RetryInputs
    /\ httpOut = NoResult
    /\ tries = 0
    /\ SideIdle
    /\ MainInit

\* one attempt of _attempt_sync_post: the health-check branch makes it once,
\* the normal branch under the retry wrapper; the attempt that ends the
\* wrapper is classified by _post_sync_unified
AttemptPost ==
    /\ httpPc \in {"ready", "backoff"}
    /\ LET n == tries + 1
           a == httpIn.plan[n]
       IN  /\ tries' = n
           /\ IF ~httpIn.is_health_check /\ Retries(a.transport, n, a.late)
              THEN /\ httpPc' = "backoff"
                   /\ UNCHANGED httpOut
              ELSE /\ httpPc' = "returned"
                   /\ httpOut' = _post_sync_unified(a.transport,
                                                    httpIn.reset_fails)
    /\ UNCHANGED <<httpIn, sideVars, mainVars>>

RetryNext == AttemptPost

SpecRetry == RetryInit /\ [][RetryNext]_vars

\* the failures of the connection class: connect timeout, connection
\* refused or broken, proxy error
ConnectionClass == {"ConnectTimeout", "ConnectionError", "ProxyError"}

\* C31: a normal call makes at most 3 attempts, and one more only after a
\* failure of the connection class: after a read timeout, an SSL error or
\* any response it makes none; a health-check call makes exactly one
C31_AttemptStep ==
    tries' # tries =>
        LET a == httpIn.plan[tries'].transport
        IN  /\ tries' = tries + 1
            /\ tries' <= 3
            /\ httpPc' \in {"backoff", "returned"}
            /\ httpPc' = "backoff" =>
                  /\ ~httpIn.is_health_check
                  /\ a.kind = "exception"
                  /\ a.exc \in ConnectionClass
            /\ (a.kind = "response" \/ a.exc \in {"ReadTimeout", "SSLError"})
                  => httpPc' = "returned"
            /\ httpIn.is_health_check => (tries' = 1 /\ httpPc' = "returned")

AdapterRaised(p) == api_result[p].raised \notin {None, "not called"}

\* C32: when the adapter call raises inside chat, chat returns the envelope
\* internal_exception: for a ValueError or TypeError with error_type fatal
\* and the status UNAVAILABLE, for any other exception with error_type
\* recoverable and the status ERROR; error_count and error_sum have grown by
\* exactly 1, and the call ends through its finally clause
C32_AtReturn ==
    \A p \in Callers :
        (Handled(p) /\ AdapterRaised(p)) =>
            LET fatal == api_result[p].raised \in {"ValueError", "TypeError"}
            IN  /\ ret[p].error = "internal_exception"
                /\ ret[p].error_type =
                      (IF fatal THEN "fatal" ELSE "recoverable")
                /\ status[cur[p]] = (IF fatal THEN "UNAVAILABLE" ELSE "ERROR")
                /\ eff[p].inc = 1
                /\ ~eff[p].reset

C32_HandlingStep ==
    \A p \in Callers :
        (pc[p] = "handling" /\ AdapterRaised(p)) =>
            LET c == cur[p]
            IN  /\ (todo[p] # <<>> /\ todo'[p] # todo[p]) =>
                      IF Head(todo[p]) = Inc
                      THEN /\ error_count'[c] = error_count[c] + 1
                           /\ error_sum'[c] = error_sum[c] + 1
                      ELSE /\ error_count'[c] = error_count[c]
                           /\ error_sum'[c] = error_sum[c]
                /\ (todo[p] = <<>> /\ pc'[p] # pc[p]) =>
                      /\ pc'[p] = "idle"
                      /\ ~in_use'[c]
                      /\ error_count'[c] = error_count[c]

C32_ExceptionHandled ==
    [][C32_AtReturn /\ C32_AtReturn' /\ C32_HandlingStep]_vars

\* the adapter has raised a RuntimeError and chat is about to return
C32_Witness ==
    /\ Handled("u1")
    /\ api_result["u1"].raised = "RuntimeError"
    /\ ret["u1"] = Envelope("internal_exception", "recoverable")
    /\ status[cur["u1"]] = "ERROR"
    /\ error_count[cur["u1"]] = 2

(***************************************************************************)
(* _acquire and _release of one client, called by several threads while    *)
(* the dashboard sets its status.  A thread calls _release whether or not  *)
(* it holds the client (release_client does not look at the holder).       *)
(***************************************************************************)

\* what the lease's actions leave alone
leaseFixed == <<httpVars, rotVars, logVars, runVars, lockVars, monVars, now,
                group_id, mgrVars,
                procVars, chat_count, in_use, last_chat, last_test, health,
                events>>

\* _acquire, one lock block
_acquire(t, c) ==
    /\ acquire_ret[t] = None
    /\ acquire_count[c] < MaxAcquires
    /\ IF CanAcquire(acquired, c)
       THEN /\ acquired' = [acquired EXCEPT ![c] = TRUE]
            /\ acquire_count' = [acquire_count EXCEPT ![c] = @ + 1]
            /\ last_acquired' = [last_acquired EXCEPT ![c] = now]
            /\ acquire_ret' = [acquire_ret EXCEPT ![t] = "True"]
            /\ since_release' = [since_release EXCEPT ![c] = @ + 1]
       ELSE /\ acquire_ret' = [acquire_ret EXCEPT ![t] = "False"]
            /\ UNCHANGED <<acquired, acquire_count, last_acquired,
                           since_release>>
    /\ UNCHANGED <<last_released, status, status_last_updated, error_count,
                   error_sum, leaseFixed>>

\* the thread has seen that its _acquire failed and goes on
AcquireFailed(t) ==
    /\ acquire_ret[t] = "False"
    /\ acquire_ret' = [acquire_ret EXCEPT ![t] = None]
    /\ UNCHANGED <<acquired, acquire_count, last_acquired, last_released,
                   since_release, status, status_last_updated, error_count,
                   error_sum, leaseFixed>>

\* _release, one lock block
_release(t, c) ==
    /\ acquire_ret[t] # "False"
    /\ acquired' = [acquired EXCEPT ![c] = FALSE]
    /\ last_released' = [last_released EXCEPT ![c] = now]
    /\ acquire_ret' = [acquire_ret EXCEPT ![t] = None]
    /\ since_release' = [since_release EXCEPT ![c] = 0]
    /\ UNCHANGED <<acquire_count, last_acquired, status, status_last_updated,
                   error_count, error_sum, leaseFixed>>

\* the dashboard sets the status of the client
LeaseSetStatus(c, s) ==
    /\ status[c] # s
    /\ _update_client_status(c, s)
    /\ UNCHANGED <<acquired, leaseVars, leaseFixed>>

LeaseNext ==
    \/ \E t \in LeaseThreads : _acquire(t, "A")
    \/ \E t \in LeaseThreads : AcquireFailed(t)
    \/ \E t \in LeaseThreads : _release(t, "A")
    \/ \E s \in Statuses : LeaseSetStatus("A", s)
    \/ Tick

SpecLease == Init /\ [][LeaseNext]_vars

\* C33: _acquire returns false and changes nothing when the client is
\* acquired or UNAVAILABLE; otherwise it sets acquired, adds 1 to
\* acquire_count and stamps last_acquired; so between two _release calls at
\* most one _acquire succeeds, whatever the number of threads that try, and
\* acquired is never set on a client that is UNAVAILABLE at that moment
C33_AcquireStep ==
    \A t \in LeaseThreads :
        (acquire_ret[t] = None /\ acquire_ret'[t] # None) =>
            IF acquired["A"] \/ status["A"] = "UNAVAILABLE"
            THEN /\ acquire_ret'[t] = "False"
                 /\ acquired'["A"] = acquired["A"]
                 /\ acquire_count'["A"] = acquire_count["A"]
                 /\ last_acquired'["A"] = last_acquired["A"]
                 /\ status'["A"] = status["A"]
            ELSE /\ acquire_ret'[t] = "True"
                 /\ acquired'["A"]
                 /\ acquire_count'["A"] = acquire_count["A"] + 1
                 /\ last_acquired'["A"] = now

C33_Exclusive ==
    /\ since_release["A"] <= 1
    /\ acquired["A"] <=> since_release["A"] = 1

C33_LeaseExclusive ==
    [][/\ C33_Exclusive
       /\ C33_Exclusive'
       /\ C33_AcquireStep
       /\ (~acquired["A"] /\ acquired'["A"]) => status["A"] # "UNAVAILABLE"]_vars

\* one thread holds the client, taken for the second time, and the _acquire
\* of another thread has returned False
C33_Witness ==
    /\ acquire_ret["u1"] = "True"
    /\ acquire_ret["checker"] = "False"
    /\ acquired["A"]
    /\ acquire_count["A"] = 2
    /\ status["A"] = "UNAVAILABLE"

(***************************************************************************)
(* Lock order.  Every operation is the sequence of its requests and        *)
(* releases of the three locks, read off its code: Acq enters a with-block *)
(* that requests a lock inside, Rel leaves it, Use is a with-block that    *)
(* requests none (entered and left in one step).                           *)
(***************************************************************************)
Acq(l) == [op |-> "acquire", lock |-> l]
Rel(l) == [op |-> "release", lock |-> l]
Use(l) == [op |-> "use", lock |-> l]

\* handle_event: _touch_run_heartbeat, then by type: _ensure_state
\* (_close_interval, _open_interval); _close_interval with a patch (two
\* blocks), _derive_idle_state (client.get_status), _open_interval;
\* _derive_idle_state, _ensure_state
handle_event_locks(type, c) ==
    CASE type = "chat_start" -> <<Use("log"), Use("log"), Use("log")>>
      [] type = "chat_end" ->
            <<Use("log"), Use("log"), Use("log"), Use(c), Use("log")>>
      [] OTHER -> <<Use("log"), Use(c), Use("log"), Use("log")>>

\* an _update_client_status that asks the manager while it holds the client
UpdateStatusViaManager(c) ==
    <<Acq(c), Use("manager")>> \o handle_event_locks("status_change", c)
        \o <<Rel(c)>>

\* _update_client_status: the event is emitted inside the client's lock
_update_client_status_locks(c) ==
    <<Acq(c)>> \o handle_event_locks("status_change", c) \o <<Rel(c)>>

\* chat: admission, chat_start, the handler (_handle_llm_response when
\* success, else _handle_unified_error), the finally block, chat_end
chat_locks(c, success) ==
    <<Use(c)>> \o handle_event_locks("chat_start", c)
        \o (IF success THEN <<Use(c)>> \o _update_client_status_locks(c)
                       ELSE _update_client_status_locks(c) \o <<Use(c)>>)
        \o <<Use(c)>> \o handle_event_locks("chat_end", c)

\* complain_error
complain_error_locks(c) == <<Use(c)>> \o _update_client_status_locks(c)

\* get_available_client: under the manager's lock, get_status and _release
\* of the current client, then get_status (twice), _is_busy, _acquire of
\* the candidate and _release of the client given up
get_available_client_locks(c) ==
    <<Acq("manager"), Use(c), Use(c), Use(c), Use(c), Use(c), Use(c), Use(c),
      Rel("manager")>>

\* release_client
release_client_locks(c) == <<Acq("manager"), Use(c), Rel("manager")>>

\* register_client: attach_client under the manager's lock
register_client_locks(c) ==
    <<Acq("manager"), Use(c), Use("log"), Rel("manager")>>

\* set_client_status: get_client_by_name, _update_client_status,
\* _reset_error_count
set_client_status_locks(c) ==
    <<Use("manager")>> \o _update_client_status_locks(c) \o <<Use(c)>>

\* _test_and_update_status: the chat, then _reset_error_count and
\* _update_client_status, or complain_error; last_test in the finally
_test_and_update_status_locks(c, success) ==
    chat_locks(c, success)
        \o (IF success THEN <<Use(c)>> \o _update_client_status_locks(c)
                       ELSE complain_error_locks(c))
        \o <<Use(c)>>

\* _check_client_health: the collection under the manager's lock (four
\* get_status and _is_acquired), then _acquire, _set_test_user, the test,
\* _clear_test_user, _release
_check_client_health_locks(c, success) ==
    <<Acq("manager"), Use(c), Use(c), Use(c), Use(c), Use(c), Rel("manager"),
      Use(c), Use("manager")>>
        \o _test_and_update_status_locks(c, success)
        \o <<Use("manager"), Use(c)>>

\* _heartbeat_loop: _touch_run_heartbeat
_heartbeat_loop_locks == <<Use("log")>>

\* ClientStateSQLiteLogger.stop: _close_interval, _set_run_end_ts
stop_locks == <<Use("log"), Use("log")>>

\* the operations each thread runs
Operations(t) ==
    CASE t \in {"u1", "u2"} ->
            {get_available_client_locks("A"), release_client_locks("A"),
             complain_error_locks("A")}
            \cup {chat_locks("A", success) : success \in BOOLEAN}
      [] t = "admin" ->
            {register_client_locks("A"), set_client_status_locks("A"),
             stop_locks}
      [] t = "monitor" ->
            {_check_client_health_locks("A", success) : success \in BOOLEAN}
      [] OTHER -> {_heartbeat_loop_locks}

\* what the actions on locks leave alone
lockFixed == <<httpVars, rotVars, logVars, runVars, leaseVars, monVars,
              mainVars>>

\* the thread starts an operation
Call(t) ==
    /\ prog[t] = <<>>
    /\ \E o \in Operations(t) : prog' = [prog EXCEPT ![t] = o]
    /\ UNCHANGED <<lock_owner, lock_depth, lockFixed>>

\* RLock.acquire would not block the thread
Grantable(t, l) == lock_owner[l] \in {None, t}

\* the thread enters a with-block
Enter(t) ==
    /\ prog[t] # <<>>
    /\ Head(prog[t]).op = "acquire"
    /\ LET l == Head(prog[t]).lock
       IN  /\ Grantable(t, l)
           /\ lock_owner' = [lock_owner EXCEPT ![l] = t]
           /\ lock_depth' = [lock_depth EXCEPT ![l] = @ + 1]
    /\ prog' = [prog EXCEPT ![t] = Tail(@)]
    /\ UNCHANGED lockFixed

\* the thread leaves a with-block
Leave(t) ==
    /\ prog[t] # <<>>
    /\ Head(prog[t]).op = "release"
    /\ LET l == Head(prog[t]).lock
       IN  /\ lock_depth' = [lock_depth EXCEPT ![l] = @ - 1]
           /\ lock_owner' = [lock_owner EXCEPT ![l] =
                                IF lock_depth[l] = 1 THEN None ELSE @]
    /\ prog' = [prog EXCEPT ![t] = Tail(@)]
    /\ UNCHANGED lockFixed

\* the thread runs a with-block that requests no lock
Through(t) ==
    /\ prog[t] # <<>>
    /\ Head(prog[t]).op = "use"
    /\ Grantable(t, Head(prog[t]).lock)
    /\ prog' = [prog EXCEPT ![t] = Tail(@)]
    /\ UNCHANGED <<lock_owner, lock_depth, lockFixed>>

LocksNext ==
    \/ \E t \in LockThreads : Call(t)
    \/ \E t \in LockThreads : Enter(t)
    \/ \E t \in LockThreads : Leave(t)
    \/ \E t \in LockThreads : Through(t)

SpecLocks == Init /\ [][LocksNext]_vars

\* the order of the locks: manager, client, log
Rank(l) == CASE l = "manager" -> 1 [] l = "log" -> 3 [] OTHER -> 2

HeldBy(t) == {l \in Locks : lock_owner[l] = t}

\* the thread is about to request a lock
Requests(t) == prog[t] # <<>> /\ Head(prog[t]).op \in {"acquire", "use"}
Wanted(t) == Head(prog[t]).lock

\* the thread waits for a lock another thread owns
Blocked(t) == Requests(t) /\ ~Grantable(t, Wanted(t))

\* some threads wait for locks that threads among them own
Deadlocked ==
    \E S \in SUBSET LockThreads :
        /\ S # {}
        /\ \A t \in S : Blocked(t) /\ lock_owner[Wanted(t)] \in S

\* C34: a thread that requests a lock holds only locks that come before it
\* in the order manager, client, log (or the lock itself, which is
\* reentrant), and no reachable state of callers, the dashboard, the
\* monitor worker and the heartbeat worker is a deadlock on these locks
C34_LockOrder ==
    /\ \A t \in LockThreads :
          Requests(t) =>
             \A h \in HeldBy(t) \ {Wanted(t)} : Rank(h) < Rank(Wanted(t))
    /\ ~Deadlocked

\* the monitor emits a status change inside the client's lock and waits for
\* the log, which the heartbeat worker is not holding, while a caller holds
\* the manager's lock and waits for the client
C34_Witness ==
    /\ lock_owner["A"] = "monitor"
    /\ Requests("monitor") /\ Wanted("monitor") = "log"
    /\ lock_owner["manager"] = "u1"
    /\ Blocked("u1") /\ Wanted("u1") = "A"
    /\ Blocked("u2") /\ Wanted("u2") = "manager"

(***************************************************************************)
(* start_monitoring and stop_monitoring, called one after the other by one *)
(* thread of a manager that has no state logger, and the threads of        *)
(* _monitor_loop.  A sleeping thread wakes at any time of the clock; the   *)
(* self-test is one step with its whole effect.                            *)
(***************************************************************************)

\* what the monitor's actions leave alone
workFixed == <<httpVars, rotVars, logVars, runVars, leaseVars, lockVars,
               group_id, procVars, clients, reg_order, sel, group_limits,
               health, in_use>>
workClient == <<status, status_last_updated, error_count, error_sum,
                chat_count, last_chat, last_test, events>>

\* the threads created so far
Born == {w \in Workers : wpc[w] # "unborn"}

\* start_monitoring
start_monitoring ==
    /\ cpc = "idle"
    /\ IF monitor_running
       THEN UNCHANGED <<monitor_running, monitor_thread, wpc>>
       ELSE /\ Cardinality(Born) < Len(WorkerOrder)
            /\ LET w == WorkerOrder[Cardinality(Born) + 1]
               IN  /\ monitor_running' = TRUE
                   /\ monitor_thread' = w
                   /\ wpc' = [wpc EXCEPT ![w] = "while"]
    /\ stop_returned' = FALSE
    /\ UNCHANGED <<first_check_delay_sec, wcur, cpc, now, user_client_map,
                   acquired, workClient, workFixed>>

\* stop_monitoring, line 1067: the flag is cleared
StopFlag ==
    /\ cpc = "idle"
    /\ monitor_running' = FALSE
    /\ cpc' = "join"
    /\ UNCHANGED <<monitor_thread, first_check_delay_sec, wpc, wcur,
                   stop_returned, now, user_client_map, acquired, workClient,
                   workFixed>>

\* monitor_thread.join(timeout=10) returns: the thread has ended, or it is
\* still running after 10 seconds, in time.sleep(60), in
\* time.sleep(check_error_interval) or in a health check
JoinReturns(w) ==
    wpc[w] \in {"exited", "sleep", "interval", "check", "acquire", "test",
                "tested"}

\* stop_monitoring, lines 1068-1076: the join, state_logger.stop() (which
\* raises on None and is caught), the return
StopJoin ==
    /\ cpc = "join"
    /\ monitor_thread # None => JoinReturns(monitor_thread)
    /\ cpc' = "idle"
    /\ stop_returned' = TRUE
    /\ UNCHANGED <<monitor_running, monitor_thread, first_check_delay_sec,
                   wpc, wcur, now, user_client_map, acquired, workClient,
                   workFixed>>

\* _monitor_loop, lines 1081-1086: the test of the flag, the start-up delay
WorkerWhile(w) ==
    /\ wpc[w] = "while"
    /\ IF ~monitor_running
       THEN /\ wpc' = [wpc EXCEPT ![w] = "exited"]
            /\ UNCHANGED first_check_delay_sec
       ELSE IF first_check_delay_sec > 0
       THEN /\ first_check_delay_sec' = first_check_delay_sec - 1
            /\ wpc' = [wpc EXCEPT ![w] = "delay"]
       ELSE /\ wpc' = [wpc EXCEPT ![w] = "sleep"]
            /\ UNCHANGED first_check_delay_sec
    /\ UNCHANGED <<monitor_running, monitor_thread, wcur, cpc, stop_returned,
                   now, user_client_map, acquired, workClient, workFixed>>

\* _monitor_loop: time.sleep returns (lines 1085, 1090 and 1103)
WorkerWake(w) ==
    /\ wpc[w] \in {"delay", "sleep", "interval"}
    /\ wpc' = [wpc EXCEPT ![w] = IF wpc[w] = "sleep" THEN "check"
                                 ELSE "while"]
    /\ UNCHANGED <<monitor_running, monitor_thread, first_check_delay_sec,
                   wcur, cpc, stop_returned, now, user_client_map, acquired,
                   workClient, workFixed>>

\* _check_client_health, lines 1135-1171: clients_to_check
WorkerCollect(w) ==
    /\ wpc[w] = "check"
    /\ IF clients_to_check = <<>>
       THEN /\ wpc' = [wpc EXCEPT ![w] = "interval"]
            /\ UNCHANGED wcur
       ELSE /\ wpc' = [wpc EXCEPT ![w] = "acquire"]
            /\ wcur' = [wcur EXCEPT ![w] = Head(clients_to_check)]
    /\ UNCHANGED <<monitor_running, monitor_thread, first_check_delay_sec,
                   cpc, stop_returned, now, user_client_map, acquired,
                   workClient, workFixed>>

\* _check_client_health, lines 1179-1182: _acquire and _set_test_user
WorkerAcquire(w) ==
    /\ wpc[w] = "acquire"
    /\ IF CanAcquire(acquired, wcur[w])
       THEN /\ acquired' = [acquired EXCEPT ![wcur[w]] = TRUE]
            /\ user_client_map' =
                  [user_client_map EXCEPT
                      ![_generate_test_user_name(wcur[w])] = wcur[w]]
            /\ wpc' = [wpc EXCEPT ![w] = "test"]
            /\ UNCHANGED wcur
       ELSE /\ wpc' = [wpc EXCEPT ![w] = "interval"]
            /\ wcur' = [wcur EXCEPT ![w] = None]
            /\ UNCHANGED <<acquired, user_client_map>>
    /\ UNCHANGED <<monitor_running, monitor_thread, first_check_delay_sec,
                   cpc, stop_returned, now, workClient, workFixed>>

\* _test_and_update_status from its call to its return: the test chat
\* passes (the content holds "OK") or returns a transient error
WorkerTest(w, passed) ==
    /\ wpc[w] = "test"
    /\ LET c == wcur[w]
       IN  /\ chat_count[c] < MaxChats
           /\ chat_count' = [chat_count EXCEPT ![c] = @ + 1]
           /\ events' = [events EXCEPT ![c] = @ \o <<"chat_start", "chat_end">>]
           /\ last_chat' = [last_chat EXCEPT ![c] = now]
           /\ last_test' = [last_test EXCEPT ![c] = now]
           /\ status_last_updated' = [status_last_updated EXCEPT ![c] = now]
           /\ IF passed
              THEN /\ status' = [status EXCEPT ![c] = "AVAILABLE"]
                   /\ error_count' = [error_count EXCEPT ![c] = 0]
                   /\ UNCHANGED error_sum
              ELSE /\ status' = [status EXCEPT ![c] = "ERROR"]
                   /\ error_count' = [error_count EXCEPT ![c] = @ + 1]
                   /\ error_sum' = [error_sum EXCEPT ![c] = @ + 1]
    /\ wpc' = [wpc EXCEPT ![w] = "tested"]
    /\ UNCHANGED <<monitor_running, monitor_thread, first_check_delay_sec,
                   wcur, cpc, stop_returned, now, user_client_map, acquired,
                   workFixed>>

\* _check_client_health, lines 1190-1193: _clear_test_user and _release
WorkerRelease(w) ==
    /\ wpc[w] = "tested"
    /\ user_client_map' =
          [user_client_map EXCEPT ![_generate_test_user_name(wcur[w])] = None]
    /\ acquired' = [acquired EXCEPT ![wcur[w]] = FALSE]
    /\ wcur' = [wcur EXCEPT ![w] = None]
    /\ wpc' = [wpc EXCEPT ![w] = "interval"]
    /\ UNCHANGED <<monitor_running, monitor_thread, first_check_delay_sec,
                   cpc, stop_returned, now, workClient, workFixed>>

\* the clock
WorkTick ==
    /\ now < MaxWorkClock
    /\ now' = now + 1
    /\ UNCHANGED <<monVars, user_client_map, acquired, workClient, workFixed>>

WorkersNext ==
    \/ start_monitoring
    \/ StopFlag
    \/ StopJoin
    \/ \E w \in Workers : WorkerWhile(w)
    \/ \E w \in Workers : WorkerWake(w)
    \/ \E w \in Workers : WorkerCollect(w)
    \/ \E w \in Workers : WorkerAcquire(w)
    \/ \E w \in Workers, passed \in BOOLEAN : WorkerTest(w, passed)
    \/ \E w \in Workers : WorkerRelease(w)
    \/ WorkTick

SpecWorkers == MonitorInit /\ [][WorkersNext]_vars

\* the thread can execute _check_client_health: it is in it, or it runs the
\* loop while the flag is set
CanCheck(w) ==
    \/ wpc[w] \in {"sleep", "check", "acquire", "test", "tested"}
    \/ wpc[w] \in {"while", "delay", "interval"} /\ monitor_running

\* C35: for every sequence of start_monitoring and stop_monitoring calls
\* there are never two monitor workers that can both execute
\* _check_client_health
C35_OneWorker == Cardinality({w \in Workers : CanCheck(w)}) <= 1

\* C38: once stop_monitoring has returned, no worker begins a health check
\* (no _test_and_update_status call begins) until start_monitoring is
\* called again
C38_CheckStep ==
    \A w \in Workers :
        (wpc[w] # "test" /\ wpc'[w] = "test") => ~stop_returned

C38_NoCheckAfterStop == [][C38_CheckStep]_vars

\* C36: in every reachable state, under any interleaving of chat,
\* complain_error, set_client_status and health checks on the same client,
\* a client whose status is AVAILABLE has error_count = 0
C36_AvailableMeansNoErrors ==
    \A c \in Registered : status[c] = "AVAILABLE" => error_count[c] = 0

(***************************************************************************)
(* Callers and health checks on a fleet with group limits that are never   *)
(* lowered: a limit is given to a group before any client is handed out    *)
(* and is only raised afterwards                                           *)
(***************************************************************************)
\* set_group_limit, called with a limit that is not below the one in force
RaiseGroupLimit(g, limit) ==
    /\ IF g \in DOMAIN group_limits
       THEN limit > group_limits[g]
       ELSE \A k \in Keys : user_client_map[k] = None
    /\ SetGroupLimit(g, limit)

\* the callers
LimitUsers == {"u1", "u2"}

\* two clients of one group are registered and have passed a health check
LimitsInit ==
    /\ HttpIdle
    /\ SideIdle
    /\ now = 1
    /\ reg_order = <<"A", "B">>
    /\ clients = RegisterAll(reg_order)
    /\ sel = NoSel
    /\ user_client_map = [k \in Keys |-> None]
    /\ group_limits = <<>>
    /\ group_id = [c \in Clients |-> "G"]
    /\ status = [c \in Clients |-> "AVAILABLE"]
    /\ status_last_updated = [c \in Clients |-> 1]
    /\ error_count = [c \in Clients |-> 0]
    /\ error_sum = [c \in Clients |-> 0]
    /\ chat_count = [c \in Clients |-> 0]
    /\ in_use = [c \in Clients |-> FALSE]
    /\ acquired = [c \in Clients |-> FALSE]
    /\ last_chat = [c \in Clients |-> 0]
    /\ last_test = [c \in Clients |-> 0]
    /\ health = [c \in Clients |-> 100]
    /\ events = [c \in Clients |-> <<>>]
    /\ pc = [p \in Procs |-> "idle"]
    /\ cur = [p \in Procs |-> None]
    /\ todo = [p \in Procs |-> <<>>]
    /\ ret = [p \in Procs |-> NoRet]
    /\ final_success = [p \in Procs |-> FALSE]
    /\ api_result = [p \in Procs |-> NotCalled]
    /\ eff = [p \in Procs |-> NoEff]
    /\ test_result = [p \in Procs |-> None]
    /\ targets = <<>>

LimitsNext ==
    \/ \E g \in Groups, limit \in 0..MaxLimit : RaiseGroupLimit(g, limit)
    \/ \E u \in LimitUsers, rc \in BOOLEAN : Select(u, rc, None, None)
    \/ SelDrop
    \/ \E t \in LimitUsers : ReleaseClient(t)
    \/ \E c \in Registered : TriggerManualCheck(c)
    \/ MonitorCollect(Clients)
    \/ CheckAcquire
    \/ CheckDone
    \/ _set_test_user("checker")
    \/ TestChat("checker")
    \/ \E o \in ScenarioOutcomes : AdapterReturn("checker", o)
    \/ HandlerStep("checker")
    \/ ChatFinally("checker")
    \/ TestValidate("checker")
    \/ TestReturn("checker")
    \/ CheckEnd("checker")

SpecLimits == LimitsInit /\ [][LimitsNext]_vars

\* C37: as long as group limits are not lowered, the entries of
\* user_client_map (callers and health checks) whose client is in a group
\* with a limit never number more than the limit
C37_GroupLimitHolds ==
    \A g \in DOMAIN group_limits : HoldersOf(g) <= group_limits[g]

\* the logger of this process is constructed and not stopped
LoggerLive == run_id # None /\ run_meta[run_id].end_ts = Null

\* C39: reconcile_stale_runs, at the construction of the logger and in every
\* query_timeline, never stamps end_ts on the logger's own run and never
\* closes an open interval of that run while the logger is live, whether or
\* not start() was called and however long the run has had no event
C39_ReconcileStep ==
    /\ (run_id = None /\ run_id' # None) => run_meta'[run_id'].end_ts = Null
    /\ (LoggerLive /\ QueryTimeline) =>
          /\ run_meta'[run_id].end_ts = Null
          /\ \A i \in DOMAIN client_state_log :
                (/\ client_state_log[i].run_id = run_id
                 /\ client_state_log[i].ts_end = Null)
                    => client_state_log'[i].ts_end = Null

C39_OwnRunUntouched == [][C39_ReconcileStep]_vars

\* no caller holds client c
NotLeased(c) == ~acquired[c] /\ \A u \in Users : user_client_map[u] # c

\* C40: with the monitor running under fair scheduling and a backend that
\* answers "OK", a client in ERROR that no caller holds and that receives
\* no chat is eventually self-tested and reaches AVAILABLE with
\* error_count = 0, free to be selected again
C40_ErrorClientRecovers ==
    \A c \in Clients :
        (c \in Registered /\ status[c] = "ERROR" /\ NotLeased(c))
            ~> (status[c] = "AVAILABLE" /\ error_count[c] = 0
                /\ ~acquired[c] /\ health[c] > 0)

\* the client was in ERROR with error_count 4 and a last activity at time 1;
\* the monitor tested it at time 34, once 16 x base had passed, and it is
\* AVAILABLE and free
C40_Witness ==
    /\ status["A"] = "AVAILABLE" /\ error_count["A"] = 0
    /\ error_sum["A"] = 4
    /\ chat_count["A"] = 2
    /\ last_test["A"] = 34
    /\ ~acquired["A"]
    /\ pc["checker"] = "idle"

=============================================================================
